---- MODULE Spec2Model ----
(***************************************************************************)
(* Verification model of the NFL fantasy projection pipeline.              *)
(*                                                                         *)
(*   Spec          model store: prediction requests, background training,  *)
(*                 model files on disk (app.py, prediction_model.py)       *)
(*   SpecFeatures  feature cache: prefetch and per-player prediction       *)
(*                 (prediction_model.py)                                   *)
(*   SpecInjury    injury filter: filter_out_players and                   *)
(*                 apply_injury_adjustments (injury_collector.py)          *)
(*                                                                         *)
(* Fantasy points are fixed-point integers in hundredths of a point and    *)
(* injury severities are in tenths, so 18.0 points is 1800 and 0.3 is 3.   *)
(***************************************************************************)
EXTENDS Integers, Sequences, FiniteSets, TLC

VARIABLES
    \* ---- injury filter (GamedayInjuryFilter) ----
    injurySource,       \* list of PlayerInjury the collector returns
    playerPredictions,  \* the prediction list as it stands
    opInput,            \* the list handed to the last filter operation
    lastOp,             \* "none" | "filter_out" | "adjust"
    \* ---- feature cache (PlayerPredictor) ----
    gameStats,          \* game_stats joined with games: player -> set of <<season, week>>
    fittedPositions,    \* keys of PlayerPredictor.models
    featureCache,       \* PlayerPredictor._feature_cache: player -> rows, newest first
    lastCall,           \* the last predict_player_points call and what it returned
    \* ---- model store (app.py) ----
    booted,             \* the startup block of app.py has run
    dbLatest,           \* latest <<season, week>> ingested with final scores
    files,              \* model blobs on disk: path -> file
    currentJson,        \* CURRENT.json per scoring directory
    resident,           \* models held by the shared gameday_predictor.predictor
    predictionCache,    \* keys of prediction_cache
    threads,            \* request and background threads
    \* ---- DST projections (GamedayPredictor) ----
    currentInjuries,    \* what get_current_injuries returns: list of PlayerInjury
    dstBase,            \* predict_dst_points for the team: <<>> (None) or <<points>>
    dstPredictions,     \* the dst_predictions list built for the matchup
    dstCalled,          \* _get_dst_predictions_with_injuries has run
    \* ---- scoring (FantasyCalculator) ----
    scoreArgs,          \* the call at hand: row, scoring system name, system dict
    scoreResult,        \* what the call returned or that it raised
    \* ---- week readiness (app.py) ----
    games,              \* the games table: rows [game_id, scored]
    game_stats_rows,    \* the game ids the rows of game_stats carry
    team_defense_stats, \* team_defense_stats: <<season, week>> -> number of rows
    dbUp,               \* the database answers the readiness queries
    readyArgs,          \* the call at hand
    readyResult,        \* what the call returned
    \* ---- basic lineup composer (GamedayPredictor) ----
    lineupPredictions,  \* the prediction list handed to the composer
    lineupResult,       \* the lineups dict it returned
    \* ---- salary-aware composer (LineupSimulator.optimize_lineup_greedy) ----
    projections,        \* the projections list (sorted in place by the call)
    constraintsArg,     \* the constraints argument: <<>> (None) or <<constraints>>
    greedyPc,           \* "idle" | "loop" | "return" | "done"
    greedyIndex,        \* position of the for loop in projections
    selected_players,
    remaining_salary,
    position_needs,
    greedyResult,       \* the OptimalLineup returned
    \* ---- matchup analysis (MatchupAnalyzer) ----
    offenseGames,       \* the offense's recent_games rows, one per game
    defenseGames,       \* the defense's recent team_defense_stats rows
    matchupResult,      \* the MatchupStrength analyze_matchup returned
    \* ---- per-position models (PlayerPredictor.models) ----
    models,             \* position -> the call that fitted its model, 0 if no key
    trainings,          \* train_models and load_models calls so far
    lastTrain,          \* the positions the most recent train_models skipped
    positionPrediction, \* the last prediction asked for and what it returned
    \* ---- one get_gameday_predictions call (GamedayPredictor) ----
    injuryFeed,         \* what the injuries endpoint answers at this moment
    feedChanges,        \* changes of the endpoint's answer so far
    gamedayPc,          \* the step the call stands before
    injury_report,      \* the report of step 1
    player_predictions, \* the call's list of predictions
    optimal_lineups     \* the result of step 5

injuryVars == <<injurySource, playerPredictions, opInput, lastOp>>

featureVars == <<gameStats, fittedPositions, featureCache, lastCall>>

storeVars ==
    <<booted, dbLatest, files, currentJson, resident, predictionCache, threads>>

dstVars == <<currentInjuries, dstBase, dstPredictions, dstCalled>>

scoringVars == <<scoreArgs, scoreResult>>

readyVars == <<games, game_stats_rows, team_defense_stats, dbUp, readyArgs, readyResult>>

lineupVars == <<lineupPredictions, lineupResult>>

greedyVars ==
    <<projections, constraintsArg, greedyPc, greedyIndex, selected_players,
      remaining_salary, position_needs, greedyResult>>

matchupVars == <<offenseGames, defenseGames, matchupResult>>

trainVars == <<models, trainings, lastTrain, positionPrediction>>

gamedayVars ==
    <<injuryFeed, feedChanges, gamedayPc, injury_report, player_predictions,
      optimal_lineups>>

vars ==
    <<injuryVars, featureVars, storeVars, dstVars, scoringVars, readyVars, lineupVars,
      greedyVars, matchupVars, trainVars, gamedayVars>>

(***************************************************************************)
(* Bounds of the model.                                                    *)
(***************************************************************************)
MaxInjuries == 2
MaxPredictions == 2
MaxWeek == 2
MaxThreads == 2
LastWeek == 3
MaxRoster == 5
MaxChangedCells == 1
MaxPointsAllowed == 36
MaxGames == 2
MaxPopulatedWeeks == 2
MaxLineupPredictions == 4
MaxProjections == 8
MaxWindowGames == 2
MaxTrainings == 3
MaxFeedChanges == 1

(***************************************************************************)
(* Sequences of length 0..n over a set.                                    *)
(***************************************************************************)
SeqsUpTo(S, n) == UNION { [1..k -> S] : k \in 0..n }

(***************************************************************************)
(* Injury filter: src/src/collectors/injury_collector.py                   *)
(***************************************************************************)

\* Player names are character sequences, so that lowercasing is a real map.
PlayerNames == { <<"J", "o">>, <<"j", "o">>, <<"K", "y">> }

\* str.lower() on one character of the alphabet used by PlayerNames.
LowerChar(c) ==
    CASE c = "J" -> "j"
      [] c = "K" -> "k"
      [] OTHER -> c

\* str.lower()
Lower(name) == [i \in DOMAIN name |-> LowerChar(name[i])]

\* (status, fantasy_status) pairs an injury record may carry.
InjuryStatuses ==
    { <<"Active", "ACTIVE">>, <<"Questionable", "ACTIVE">>,
      <<"Doubtful", "ACTIVE">>, <<"Out", "INACTIVE">>,
      <<"Active", "INACTIVE">> }

PlayerInjury ==
    { [player_name |-> n, status |-> st[1], fantasy_status |-> st[2]] :
        n \in PlayerNames, st \in InjuryStatuses }

\* PlayerInjury.is_out
is_out(injury) ==
    injury.status = "Out" \/ injury.fantasy_status = "INACTIVE"

\* PlayerInjury.impact_severity, in tenths
impact_severity(injury) ==
    IF is_out(injury) THEN 10
    ELSE IF injury.status = "Doubtful" THEN 8
    ELSE IF injury.status = "Questionable" THEN 3
    ELSE 0

\* InjuryCollector.get_out_players on the list the source returns
get_out_players(all_injuries) == SelectSeq(all_injuries, is_out)

\* Predicted points the base predictor emits (only positive values are kept).
PointValues == { 1800, 750 }

\* A prediction dict; injury_adjustment is {} while the key is absent.
Prediction ==
    { [player_name |-> n, predicted_points |-> p, injury_adjustment |-> {}] :
        n \in PlayerNames, p \in PointValues }

\* the set comprehension building out_player_names
OutPlayerNames(out_players) ==
    { Lower(out_players[i].player_name) : i \in DOMAIN out_players }

\* mutant: the name test without lowercasing the prediction's name
KeepPrediction_CaseSensitive(prediction, out_player_names) ==
    prediction.player_name \notin out_player_names

\* the name test of the filter loop
KeepPrediction(prediction, out_player_names) ==
    Lower(prediction.player_name) \notin out_player_names

RECURSIVE FilterLoop(_, _, _)
FilterLoop(preds, out_player_names, filtered) ==
    IF preds = <<>> THEN filtered
    ELSE FilterLoop(Tail(preds), out_player_names,
                    IF KeepPrediction(Head(preds), out_player_names)
                    THEN Append(filtered, Head(preds))
                    ELSE filtered)

\* GamedayInjuryFilter.filter_out_players
filter_out_players(preds, all_injuries) ==
    FilterLoop(preds, OutPlayerNames(get_out_players(all_injuries)), <<>>)

\* the dict comprehension {name.lower(): impact_severity}: a later record
\* with the same lowercased name replaces an earlier one
RECURSIVE InjuryImpacts(_, _)
InjuryImpacts(all_injuries, impacts) ==
    IF all_injuries = <<>> THEN impacts
    ELSE LET inj == Head(all_injuries)
             key == Lower(inj.player_name)
         IN InjuryImpacts(Tail(all_injuries),
                [k \in (DOMAIN impacts) \cup {key} |->
                    IF k = key THEN impact_severity(inj) ELSE impacts[k]])

\* one iteration of the adjustment loop
AdjustOne(prediction, injury_impacts) ==
    LET player_name == Lower(prediction.player_name) IN
    IF player_name \in DOMAIN injury_impacts /\ injury_impacts[player_name] > 0
    THEN [prediction EXCEPT
            !.predicted_points =
                (prediction.predicted_points * (10 - injury_impacts[player_name])) \div 10,
            !.injury_adjustment = {injury_impacts[player_name]}]
    ELSE prediction

\* GamedayInjuryFilter.apply_injury_adjustments
apply_injury_adjustments(preds, all_injuries) ==
    LET injury_impacts == InjuryImpacts(all_injuries, <<>>)
    IN [i \in DOMAIN preds |-> AdjustOne(preds[i], injury_impacts)]

\* step 4a of get_gameday_predictions
FilterOutPlayers ==
    /\ lastOp = "none"
    /\ opInput' = playerPredictions
    /\ playerPredictions' = filter_out_players(playerPredictions, injurySource)
    /\ lastOp' = "filter_out"
    /\ UNCHANGED injurySource

\* step 4b of get_gameday_predictions, or a direct call of the filter
ApplyInjuryAdjustments ==
    /\ lastOp \in {"none", "filter_out"}
    /\ opInput' = playerPredictions
    /\ playerPredictions' = apply_injury_adjustments(playerPredictions, injurySource)
    /\ lastOp' = "adjust"
    /\ UNCHANGED injurySource

(***************************************************************************)
(* Feature cache and per-player prediction: src/src/prediction_model.py    *)
(***************************************************************************)

Seasons == { 2020, 2021 }
Weeks == 1..MaxWeek
GameKeys == Seasons \X Weeks

Players == { "p1", "p2" }

\* players.position
PositionOf(pid) == IF pid = "p1" THEN "QB" ELSE "RB"

\* LIMIT 50 of the history query
HistoryLimit == 50

\* "Need at least 3 games of history"
MinHistory == 3

\* g.season_id < :season OR (g.season_id = :season AND g.week < :week)
StrictlyBefore(row, season, week) ==
    row[1] < season \/ (row[1] = season /\ row[2] < week)

\* the newest row of a non-empty set (ORDER BY season_id DESC, week DESC)
Newest(rows) ==
    CHOOSE r \in rows : \A q \in rows : q = r \/ StrictlyBefore(q, r[1], r[2])

RECURSIVE NewestFirst(_)
NewestFirst(rows) ==
    IF rows = {} THEN <<>>
    ELSE <<Newest(rows)>> \o NewestFirst(rows \ {Newest(rows)})

\* DataFrame.head(n)
HeadRows(df, n) == SubSeq(df, 1, IF Len(df) < n THEN Len(df) ELSE n)

RowSet(df) == { df[i] : i \in DOMAIN df }

\* The rows a feature vector is computed from: the last 3 and last 5 games
\* and the rows of the target season.
FeaturesFrom(historical_games, season) ==
    [ none |-> FALSE,
      recent_3 |-> HeadRows(historical_games, 3),
      recent_5 |-> HeadRows(historical_games, 5),
      current_season_games |->
          SelectSeq(historical_games, LAMBDA r : r[1] = season) ]

\* "return None": no feature vector
NoFeatures ==
    [ none |-> TRUE, recent_3 |-> <<>>, recent_5 |-> <<>>,
      current_season_games |-> <<>> ]

\* the history query of extract_features
HistoricalGames(pid, season, week) ==
    HeadRows(NewestFirst({ r \in gameStats[pid] : StrictlyBefore(r, season, week) }),
             HistoryLimit)

\* PlayerPredictor.extract_features
extract_features(pid, week, season) ==
    LET historical_games == HistoricalGames(pid, season, week)
    IN IF Len(historical_games) < MinHistory THEN NoFeatures
       ELSE FeaturesFrom(historical_games, season)

\* the cached DataFrame predict_player_points accepts
CachedFrame(pid) ==
    IF pid \in DOMAIN featureCache /\ Len(featureCache[pid]) >= MinHistory
    THEN featureCache[pid]
    ELSE <<>>

\* PlayerPredictor.predict_player_points: the path taken and the features
\* the prediction is computed from (None is returned when there are none)
predict_player_points(pid, week, season) ==
    IF PositionOf(pid) \notin fittedPositions
    THEN [path |-> "unmodeled", features |-> NoFeatures]
    ELSE IF CachedFrame(pid) # <<>>
    THEN [path |-> "cached", features |-> FeaturesFrom(CachedFrame(pid), season)]
    ELSE [path |-> "extract", features |-> extract_features(pid, week, season)]

\* the per-player frames prepare_prediction_cache stores
PrefetchedFrames(player_ids, week, season) ==
    LET historical(pid) ==
            { r \in gameStats[pid] : StrictlyBefore(r, season, week) }
        grouped == { pid \in player_ids : historical(pid) # {} }
    IN [pid \in grouped |-> NewestFirst(historical(pid))]

NoCall ==
    [ player |-> "none", season |-> 0, week |-> 0,
      outcome |-> [path |-> "none", features |-> NoFeatures] ]

\* PlayerPredictor.prepare_prediction_cache
PreparePredictionCache(player_ids, week, season) ==
    /\ player_ids # {}
    /\ featureCache' = PrefetchedFrames(player_ids, week, season)
    /\ UNCHANGED <<gameStats, fittedPositions, lastCall>>

\* PlayerPredictor.predict_player_points
PredictPlayerPoints(pid, week, season) ==
    /\ lastCall' = [player |-> pid, season |-> season, week |-> week,
                    outcome |-> predict_player_points(pid, week, season)]
    /\ UNCHANGED <<gameStats, fittedPositions, featureCache>>


(***************************************************************************)
(* Model store and request handlers: src/app.py                            *)
(***************************************************************************)

ScoringSystems == { "FanDuel", "DraftKings" }

\* the scoring system the startup block loads
DefaultScoring == "FanDuel"

\* _safe_scoring: scoring.lower().replace(' ', '')
_safe_scoring(scoring) ==
    IF scoring = "FanDuel" THEN "fanduel" ELSE "draftkings"

ThreadIds == 1..MaxThreads

StoreWeeks == 1..LastWeek
StoreKeys == Seasons \X StoreWeeks

\* the latest completed week the database may hold while the server runs
DbStates == { <<2021, 2>>, <<2021, 3>> }

\* the seasons a POST /api/train-models body may name
TrainSeasonInputs == { {2021}, {2020, 2021} }

\* the (season, week) a prediction request may name
RequestKeys == { <<2021, 3>> }

\* "if week <= 2: continue" in the training loops
SkippedWeeks == 2

\* (season, week) tuple order
KeyBefore(a, b) == a[1] < b[1] \/ (a[1] = b[1] /\ a[2] < b[2])
KeyAtMost(a, b) == a = b \/ KeyBefore(a, b)

\* The weeks the database holds: everything ingested up to dbLatest.
DbWeeks(latest) == { k \in StoreKeys : KeyAtMost(k, latest) }

\* _cutoff_model_path: <dir>/<slug>_<season>_wk<week>.pkl
_cutoff_model_path(scoring, season, week) ==
    <<_safe_scoring(scoring), season, week>>

\* the versioned path of _save_current_model:
\* <dir>/<slug>_<last_season>_wk<last_week>.pkl
VersionedModelPath(scoring, latest) ==
    <<_safe_scoring(scoring), latest[1], latest[2]>>

\* _legacy_model_path_for_scoring: a flat file outside the scoring directory
_legacy_model_path_for_scoring(scoring) ==
    <<IF scoring = "FanDuel" THEN "models_FanDuel" ELSE "models_DraftKings", 0, 0>>

VersionedPaths ==
    { _cutoff_model_path(sc, k[1], k[2]) : sc \in ScoringSystems, k \in StoreKeys }

Paths ==
    VersionedPaths \cup { _legacy_model_path_for_scoring(sc) : sc \in ScoringSystems }

\* The feature schema predict_player_points and train_models work with.
BuilderSchema == "base10"

\* The content of a models pickle: who trained it, on which rows, and the
\* feature schema it was fitted with. trained_on = {} is an empty models dict.
NoModel == [scoring |-> "none", trained_on |-> {}, schema |-> BuilderSchema]

\* feature columns of an earlier build: as many, other names and order
OtherSchema == "legacy10"

\* a blob written by an earlier build
LegacyModel(schema) ==
    [scoring |-> DefaultScoring, trained_on |-> {<<2020, 1>>}, schema |-> schema]

NoFile == [exists |-> FALSE, complete |-> FALSE, model |-> NoModel]

NoPointer == [exists |-> FALSE, file |-> <<"none", 0, 0>>, last_data |-> <<0, 0>>]

\* A thread slot: which handler runs on it, where it stands, and its locals.
IdleThread ==
    [ kind |-> "idle", pc |-> "idle", scoring |-> "none", key |-> <<0, 0>>,
      seasons |-> {}, path |-> <<"none", 0, 0>>, blob |-> NoModel,
      used |-> NoModel ]

\* A thread slot is free when no handler runs on it.
Free(t) == threads[t].pc = "idle"

\* _latest_completed_game(seasons): the latest completed week of the most
\* recent of the seasons, else of any season
_latest_completed_game(seasons, latest) ==
    LET inSeasons == { k \in DbWeeks(latest) : k[1] \in seasons }
    IN IF inSeasons # {}
       THEN CHOOSE k \in inSeasons : \A j \in inSeasons : KeyAtMost(j, k)
       ELSE latest

\* GamedayPredictor._get_training_seasons: the three prior seasons, plus the
\* current one once it has completed games, limited to seasons >= 2020
_get_training_seasons(current_season, latest) ==
    { s \in Seasons : current_season - 3 <= s /\ s < current_season }
        \cup { s \in Seasons : s = current_season
                               /\ \E k \in DbWeeks(latest) : k[1] = s }

\* The rows a training pass builds examples from: every row of the seasons
\* past the skipped weeks that has at least MinHistory earlier rows. No
\* cutoff is applied.
TrainingRows(seasons, latest) ==
    { k \in DbWeeks(latest) :
        /\ k[1] \in seasons
        /\ k[2] > SkippedWeeks
        /\ Cardinality({ j \in DbWeeks(latest) : KeyBefore(j, k) }) >= MinHistory }

\* PlayerPredictor.train_models, second half: positions without enough
\* examples are skipped, so an empty training set leaves the resident models
\* as they are
FittedModels(model, data, scoring) ==
    IF data = {} THEN model
    ELSE [scoring |-> scoring, trained_on |-> data, schema |-> BuilderSchema]

\* _model_status_for_scoring(...)['stale']
Stale(scoring, latest) ==
    LET info == currentJson[_safe_scoring(scoring)]
    IN ~info.exists \/ KeyBefore(info.last_data, latest)

\* PlayerPredictor.load_models: the pickle is read from the path; a blob that
\* is still being written cannot be unpickled and the call raises
LoadRaises(path) == ~files[path].complete

\* the *.pkl files of a scoring directory
PklsIn(slug) == { p \in VersionedPaths : p[1] = slug /\ files[p].exists }

\* sorted(sdir.glob('*.pkl'))[-1]; file names sort like their (season, week)
\* while weeks have one digit
LastPkl(slug) ==
    CHOOSE p \in PklsIn(slug) :
        \A q \in PklsIn(slug) : KeyAtMost(<<q[2], q[3]>>, <<p[2], p[3]>>)

\* _try_load_models: the models resident after the call
_try_load_models(scoring) ==
    LET slug == _safe_scoring(scoring)
        cur == currentJson[slug]
        legacy == _legacy_model_path_for_scoring(scoring)
    IN IF cur.exists /\ files[cur.file].exists /\ ~LoadRaises(cur.file)
       THEN files[cur.file].model
       ELSE IF PklsIn(slug) # {}
       THEN (IF LoadRaises(LastPkl(slug)) THEN resident
             ELSE files[LastPkl(slug)].model)
       ELSE IF files[legacy].exists /\ ~LoadRaises(legacy)
       THEN files[legacy].model
       ELSE resident

\* if __name__ == '__main__': load saved models for FanDuel, then serve
Startup ==
    /\ ~booted
    /\ booted' = TRUE
    /\ resident' = _try_load_models(DefaultScoring)
    /\ UNCHANGED <<dbLatest, files, currentJson, predictionCache, threads>>

\* The process is stopped and started again: memory is lost, the disk stays.
Restart ==
    /\ booted
    /\ booted' = FALSE
    /\ resident' = NoModel
    /\ predictionCache' = {}
    /\ threads' = [t \in ThreadIds |-> IdleThread]
    /\ UNCHANGED <<dbLatest, files, currentJson>>

\* POST /api/train-models: start train_in_background on a new thread
TrainModelsRequest(t, scoring, seasons) ==
    /\ booted
    /\ Free(t)
    /\ threads' = [threads EXCEPT ![t] =
            [IdleThread EXCEPT !.kind = "train", !.pc = "train",
                               !.scoring = scoring, !.seasons = seasons]]
    /\ UNCHANGED <<booted, dbLatest, files, currentJson, resident, predictionCache>>

\* POST /api/train-stale-models: one background thread per stale scoring system
TrainStaleModels ==
    /\ booted
    /\ LET stale == { sc \in ScoringSystems : Stale(sc, dbLatest) }
           seasons == _get_training_seasons(dbLatest[1], dbLatest)
       IN /\ stale # {}
          /\ \E th \in [stale -> { t \in ThreadIds : Free(t) }] :
                /\ \A a, b \in stale : th[a] = th[b] => a = b
                /\ threads' = [t \in ThreadIds |->
                        IF \E sc \in stale : th[sc] = t
                        THEN [IdleThread EXCEPT
                                !.kind = "train", !.pc = "train",
                                !.scoring = CHOOSE sc \in stale : th[sc] = t,
                                !.seasons = seasons]
                        ELSE threads[t]]
    /\ UNCHANGED <<booted, dbLatest, files, currentJson, resident, predictionCache>>

\* predictor.train_models(seasons, scoring): the rows are read and the fitted
\* models replace the resident ones. A background thread goes on to save, a
\* prediction that trained in place goes on to its player loop.
TrainModels(t) ==
    /\ threads[t].pc = "train"
    /\ resident' = FittedModels(resident,
                                TrainingRows(threads[t].seasons, dbLatest),
                                threads[t].scoring)
    /\ threads' = [threads EXCEPT ![t].pc =
            IF threads[t].kind = "train" THEN "save" ELSE "players"]
    /\ UNCHANGED <<booted, dbLatest, files, currentJson, predictionCache>>

\* _save_current_model up to save_models' open(filepath, 'wb'): the final
\* path is created or truncated in place
SaveOpen(t) ==
    /\ threads[t].pc = "save"
    /\ LET latest == _latest_completed_game(threads[t].seasons, dbLatest)
           path == VersionedModelPath(threads[t].scoring, latest)
       IN /\ files' = [files EXCEPT ![path] =
                    [exists |-> TRUE, complete |-> FALSE, model |-> NoModel]]
          /\ threads' = [threads EXCEPT ![t].pc = "dump", ![t].path = path,
                                        ![t].blob = resident]
    /\ UNCHANGED <<booted, dbLatest, currentJson, resident, predictionCache>>

\* pickle.dump returns and the file is closed; the .json sidecar written next
\* is read by no handler and is left out of the state
SaveDump(t) ==
    /\ threads[t].pc = "dump"
    /\ files' = [files EXCEPT ![threads[t].path] =
            [exists |-> TRUE, complete |-> TRUE, model |-> threads[t].blob]]
    /\ threads' = [threads EXCEPT ![t].pc = "current"]
    /\ UNCHANGED <<booted, dbLatest, currentJson, resident, predictionCache>>

\* pickle.dump raises (an I/O error): _save_current_model logs a warning and
\* the thread goes on to clear the prediction cache
SaveFail(t) ==
    /\ threads[t].pc = "dump"
    /\ predictionCache' = {}
    /\ threads' = [threads EXCEPT ![t] = IdleThread]
    /\ UNCHANGED <<booted, dbLatest, files, currentJson, resident>>

\* _write_atomic(CURRENT.json, ...), then prediction_cache.clear()
WriteCurrent(t) ==
    /\ threads[t].pc = "current"
    /\ currentJson' = [currentJson EXCEPT ![threads[t].path[1]] =
            [exists |-> TRUE, file |-> threads[t].path,
             last_data |-> <<threads[t].path[2], threads[t].path[3]>>]]
    /\ predictionCache' = {}
    /\ threads' = [threads EXCEPT ![t] = IdleThread]
    /\ UNCHANGED <<booted, dbLatest, files, resident>>

\* GET /api/predictions/<season>/<week>/<scoring>, when prediction_cache has
\* no entry younger than 30 minutes for the key (with one the request answers
\* from the cache and changes nothing): _ensure_cutoff_model_for_request up
\* to its path.exists() branch
GetPredictions(t, scoring, key) ==
    /\ booted
    /\ Free(t)
    /\ \E fresh \in BOOLEAN :
            ~(fresh /\ <<key[1], key[2], scoring>> \in predictionCache)
    /\ LET path == _cutoff_model_path(scoring, key[1], key[2])
           req == [IdleThread EXCEPT !.kind = "predict", !.scoring = scoring,
                                     !.key = key, !.path = path]
       IN IF files[path].exists
          THEN threads' = [threads EXCEPT ![t] = [req EXCEPT !.pc = "load"]]
          ELSE threads' = [threads EXCEPT ![t] =
                    [req EXCEPT !.pc = "train_cutoff",
                                !.seasons = _get_training_seasons(key[1], dbLatest)]]
    /\ UNCHANGED <<booted, dbLatest, files, currentJson, resident, predictionCache>>

\* predictor.train_models(seasons, scoring, cutoff=(season, week)):
\* train_models has no cutoff parameter, the call raises TypeError before
\* any training or saving, and get_predictions answers 500
TrainCutoff(t) ==
    /\ threads[t].pc = "train_cutoff"
    /\ threads' = [threads EXCEPT ![t] = IdleThread]
    /\ UNCHANGED <<booted, dbLatest, files, currentJson, resident, predictionCache>>

\* predictor.load_models(path) of the path.exists() branch; an exception
\* ends the request with a 500. The slot remembers in blob the models the
\* request selected.
LoadCutoffModel(t) ==
    /\ threads[t].pc = "load"
    /\ IF LoadRaises(threads[t].path)
       THEN /\ threads' = [threads EXCEPT ![t] = IdleThread]
            /\ UNCHANGED resident
       ELSE /\ resident' = files[threads[t].path].model
            /\ threads' = [threads EXCEPT ![t].pc = "base",
                                          ![t].blob = files[threads[t].path].model]
    /\ UNCHANGED <<booted, dbLatest, files, currentJson, predictionCache>>

\* GET /api/optimized-progress/...: get_gameday_predictions on whatever
\* models are resident
OptimizedProgress(t, scoring, key) ==
    /\ booted
    /\ Free(t)
    /\ threads' = [threads EXCEPT ![t] =
            [IdleThread EXCEPT !.kind = "progress", !.pc = "base",
                               !.scoring = scoring, !.key = key]]
    /\ UNCHANGED <<booted, dbLatest, files, currentJson, resident, predictionCache>>

\* _generate_base_predictions: train in place when no models are resident,
\* else predict every player with the resident models
GenerateBasePredictions(t) ==
    /\ threads[t].pc = "base"
    /\ IF resident.trained_on = {}
       THEN threads' = [threads EXCEPT
                ![t].pc = "train",
                ![t].seasons = _get_training_seasons(threads[t].key[1], dbLatest)]
       ELSE threads' = [threads EXCEPT ![t].pc = "dst", ![t].used = resident]
    /\ UNCHANGED <<booted, dbLatest, files, currentJson, resident, predictionCache>>

\* the player loop of _generate_base_predictions after training in place
PredictPlayers(t) ==
    /\ threads[t].pc = "players"
    /\ threads' = [threads EXCEPT ![t].pc = "dst", ![t].used = resident]
    /\ UNCHANGED <<booted, dbLatest, files, currentJson, resident, predictionCache>>

\* _get_dst_predictions_with_injuries, then the response; get_predictions
\* stores it in prediction_cache
PredictDst(t) ==
    /\ threads[t].pc = "dst"
    /\ threads' = [threads EXCEPT ![t] = IdleThread]
    /\ predictionCache' =
            IF threads[t].kind = "predict"
            THEN predictionCache
                    \cup {<<threads[t].key[1], threads[t].key[2], threads[t].scoring>>}
            ELSE predictionCache
    /\ UNCHANGED <<booted, dbLatest, files, currentJson, resident>>

(***************************************************************************)
(* DST projections: src/src/gameday_predictor.py                           *)
(* The boost is in hundredths (0.15 is 15); an adjusted prediction is in   *)
(* ten-thousandths of a point, so that base * (1 + boost) stays integral.  *)
(***************************************************************************)

\* the opponent of the matchup, and the spellings a team column may carry
OpponentTeam == <<"K">>

\* Injury records the source may list: position, team, status pair.
RosterInjury ==
    { [position |-> "QB", team |-> <<"K">>, status |-> "Out", fantasy_status |-> "INACTIVE"],
      [position |-> "QB", team |-> <<"K">>, status |-> "Questionable", fantasy_status |-> "ACTIVE"],
      [position |-> "QB", team |-> <<"K">>, status |-> "Doubtful", fantasy_status |-> "ACTIVE"],
      [position |-> "QB", team |-> <<"k">>, status |-> "Questionable", fantasy_status |-> "INACTIVE"],
      [position |-> "QB", team |-> <<"K">>, status |-> "Active", fantasy_status |-> "ACTIVE"],
      [position |-> "QB", team |-> <<"J">>, status |-> "Out", fantasy_status |-> "INACTIVE"],
      [position |-> "T", team |-> <<"K">>, status |-> "Out", fantasy_status |-> "INACTIVE"],
      [position |-> "G", team |-> <<"K">>, status |-> "Questionable", fantasy_status |-> "ACTIVE"],
      [position |-> "WR", team |-> <<"K">>, status |-> "Out", fantasy_status |-> "INACTIVE"] }

\* base predictions predict_dst_points may return, in hundredths
DstBasePoints == { 800 }

\* PlayerInjury.is_questionable
is_questionable(injury) == injury.status \in {"Questionable", "Doubtful"}

\* get_injury_impact_for_team(team)[position]: the team's injuries with
\* impact_severity > 0 at the position, in source order ("position in
\* opponent_injuries" is this list being non-empty)
InjuriesAt(all_injuries, team, position) ==
    LET OfTeam(i) == /\ Lower(i.team) = Lower(team)
                     /\ impact_severity(i) > 0
                     /\ i.position = position
    IN SelectSeq(all_injuries, OfTeam)

\* one pass of the QB loop
QbStep(injury) ==
    IF is_out(injury) THEN 15 ELSE IF is_questionable(injury) THEN 5 ELSE 0

\* one pass of an offensive-line loop
LineStep(injury) == IF is_out(injury) THEN 3 ELSE 0

\* "for injury in opponent_injuries['QB']: boost += ..."
RECURSIVE QbLoop(_, _)
QbLoop(injuries, boost) ==
    IF injuries = <<>> THEN boost
    ELSE QbLoop(Tail(injuries), boost + QbStep(Head(injuries)))

\* "for injury in opponent_injuries[position]: boost += ..."
RECURSIVE LineLoop(_, _)
LineLoop(injuries, boost) ==
    IF injuries = <<>> THEN boost
    ELSE LineLoop(Tail(injuries), boost + LineStep(Head(injuries)))

Min(a, b) == IF a <= b THEN a ELSE b

\* the boost before the cap
RawDstBoost(all_injuries, team) ==
    LET qb == QbLoop(InjuriesAt(all_injuries, team, "QB"), 0)
        c == LineLoop(InjuriesAt(all_injuries, team, "C"), qb)
        g == LineLoop(InjuriesAt(all_injuries, team, "G"), c)
    IN LineLoop(InjuriesAt(all_injuries, team, "T"), g)

\* mutant: the boost without its cap
_calculate_dst_injury_boost_Uncapped(all_injuries, team) ==
    RawDstBoost(all_injuries, team)

\* GamedayPredictor._calculate_dst_injury_boost on
\* get_injury_impact_for_team(team)
_calculate_dst_injury_boost(all_injuries, team) ==
    Min(RawDstBoost(all_injuries, team), 25)

\* _get_dst_predictions_with_injuries for one matchup: no entry when the
\* base prediction is None
GetDstPredictionsWithInjuries ==
    /\ ~dstCalled
    /\ dstCalled' = TRUE
    /\ dstPredictions' =
         IF dstBase = <<>> THEN <<>>
         ELSE LET injury_boost ==
                      _calculate_dst_injury_boost(currentInjuries, OpponentTeam)
              IN << [ base_prediction |-> dstBase[1],
                      injury_boost |-> injury_boost,
                      adjusted_prediction |-> dstBase[1] * (100 + injury_boost) ] >>
    /\ UNCHANGED <<currentInjuries, dstBase>>

(***************************************************************************)
(* Scoring: src/src/fantasy_calculator.py                                  *)
(* Points and per-unit point values are in hundredths (0.04 is 4, a        *)
(* 3-point bonus is 300). A float is a record: nan says it is NaN, v is    *)
(* its value otherwise.                                                    *)
(***************************************************************************)

FNum(v) == [nan |-> FALSE, v |-> v]
FNaN == [nan |-> TRUE, v |-> 0]

\* float addition and multiplication by a number
FAdd(a, b) == IF a.nan \/ b.nan THEN FNaN ELSE FNum(a.v + b.v)
FScale(a, k) == IF a.nan THEN FNaN ELSE FNum(a.v * k)

\* mutant: the threshold test turned around
FGe_Below(a, n) == ~a.nan /\ a.v < n

\* float ">=" (false on NaN)
FGe(a, n) == ~a.nan /\ a.v >= n

\* What a cell of a stats row may hold: a number, None, the NaN pandas puts
\* in a numeric column for SQL NULL, bytes that decode to a number, and
\* text or bytes that are no number.
CellNum(n) == [kind |-> "num", v |-> n]
CellNone == [kind |-> "None", v |-> 0]
CellNaN == [kind |-> "nan", v |-> 0]
CellBytes(n) == [kind |-> "bytes", v |-> n]
CellText == [kind |-> "text", v |-> 0]

\* safe_numeric(value, default=0)
safe_numeric(value) ==
    CASE value.kind = "None" -> FNum(0)
      [] value.kind = "bytes" -> FNum(value.v)
      [] value.kind = "num" -> FNum(value.v)
      [] value.kind = "nan" -> FNaN
      [] OTHER -> FNum(0)

\* game_stats.get(key, 0): a row is a function from the keys it has
RowGet(row, key) == IF key \in DOMAIN row THEN row[key] ELSE CellNum(0)

\* safe_numeric(game_stats.get(key, 0))
Stat(row, key) == safe_numeric(RowGet(row, key))

\* mutant: 0.05 points per passing yard
PlayerSystem_PassYard5(pass_int, reception, fumble) ==
    [ pass_yard_points |-> 5, pass_td_points |-> 400,
      pass_int_points |-> pass_int,
      rush_yard_points |-> 10, rush_td_points |-> 600,
      reception_points |-> reception,
      receiving_yard_points |-> 10, receiving_td_points |-> 600,
      fumble_points |-> fumble ]

\* The shipped scoring systems (init_scoring_systems), player part.
PlayerSystem(pass_int, reception, fumble) ==
    [ pass_yard_points |-> 4, pass_td_points |-> 400,
      pass_int_points |-> pass_int,
      rush_yard_points |-> 10, rush_td_points |-> 600,
      reception_points |-> reception,
      receiving_yard_points |-> 10, receiving_td_points |-> 600,
      fumble_points |-> fumble ]

\* FantasyCalculator.scoring_systems as loaded from the shipped table
scoring_systems ==
    [ name \in {"Standard", "PPR", "Half PPR", "FanDuel", "DraftKings"} |->
        CASE name = "Standard" -> PlayerSystem(-200, 0, -200)
          [] name = "PPR" -> PlayerSystem(-200, 100, -200)
          [] name = "Half PPR" -> PlayerSystem(-200, 50, -200)
          [] name = "FanDuel" -> PlayerSystem(-100, 50, -200)
          [] name = "DraftKings" -> PlayerSystem(-100, 100, -100) ]

\* names a caller may pass: the shipped ones and one that is not loaded
ScoringNames == DOMAIN scoring_systems \cup {"Yahoo"}

\* mutant: no yardage bonus
YardBonus_Never(yards, threshold) == 0

\* the yardage bonus of FanDuel and DraftKings
YardBonus(yards, threshold) == IF FGe(yards, threshold) THEN 300 ELSE 0

\* the answer of a call that raised ValueError
ScoreRaised ==
    [ raised |-> TRUE, passing_points |-> FNum(0), rushing_points |-> FNum(0),
      receiving_points |-> FNum(0), bonus_points |-> FNum(0),
      penalty_points |-> FNum(0), total_points |-> FNum(0) ]

\* FantasyCalculator.calculate_player_points
calculate_player_points(game_stats, scoring_system) ==
    IF scoring_system \notin DOMAIN scoring_systems THEN ScoreRaised
    ELSE
    LET system == scoring_systems[scoring_system]
        passing == FAdd(FScale(Stat(game_stats, "pass_yards"), system.pass_yard_points),
                        FScale(Stat(game_stats, "pass_touchdowns"), system.pass_td_points))
        rushing == FAdd(FScale(Stat(game_stats, "rush_yards"), system.rush_yard_points),
                        FScale(Stat(game_stats, "rush_touchdowns"), system.rush_td_points))
        receiving ==
            FAdd(FAdd(FScale(Stat(game_stats, "receptions"), system.reception_points),
                      FScale(Stat(game_stats, "receiving_yards"), system.receiving_yard_points)),
                 FScale(Stat(game_stats, "receiving_touchdowns"), system.receiving_td_points))
        fumbles_lost == FAdd(Stat(game_stats, "rush_fumbles"),
                             Stat(game_stats, "receiving_fumbles"))
        penalty == FAdd(FScale(Stat(game_stats, "pass_interceptions"), system.pass_int_points),
                        FScale(fumbles_lost, system.fumble_points))
        bonus == IF scoring_system \in {"FanDuel", "DraftKings"}
                 THEN FNum(YardBonus(Stat(game_stats, "rush_yards"), 100)
                           + YardBonus(Stat(game_stats, "receiving_yards"), 100)
                           + YardBonus(Stat(game_stats, "pass_yards"), 300))
                 ELSE FNum(0)
    IN [ raised |-> FALSE, passing_points |-> passing, rushing_points |-> rushing,
         receiving_points |-> receiving, bonus_points |-> bonus,
         penalty_points |-> penalty,
         total_points |->
            FAdd(FAdd(FAdd(FAdd(passing, rushing), receiving), bonus), penalty) ]

\* The DST point values of a system dict: <<key, legacy key, shipped value>>.
\* Every shipped system carries the same values.
DstKeys ==
    { <<"dst_shutout_points", "dst_points_allowed_0_points", 1000>>,
      <<"dst_1to6_points", "dst_points_allowed_1_6_points", 700>>,
      <<"dst_7to13_points", "dst_points_allowed_7_13_points", 400>>,
      <<"dst_14to20_points", "dst_points_allowed_14_20_points", 100>>,
      <<"dst_21to27_points", "dst_points_allowed_21_27_points", 0>>,
      <<"dst_28to34_points", "dst_points_allowed_28_34_points", -100>>,
      <<"dst_35plus_points", "dst_points_allowed_35_points", -400>>,
      <<"int_points", "dst_interception_points", 200>>,
      <<"fumble_recovery_points", "dst_fumble_recovery_points", 200>>,
      <<"sack_points", "dst_sack_points", 100>>,
      <<"defensive_td_points", "dst_touchdown_points", 600>>,
      <<"safety_points", "dst_safety_points", 200>>,
      <<"dst_under100_bonus", "dst_under100_bonus", 0>>,
      <<"dst_under300_bonus", "dst_under300_bonus", 0>> }

\* How the scoring_systems table names its DST columns: the current names,
\* the names of the older schema, both, or none of them.
DstLayouts == { "new", "legacy", "both", "neither" }

\* what a table of the older schema holds under a legacy key
LegacyValue(shipped) == shipped + 50

\* the DST part of the system dict under a layout
DstSystem(layout) ==
    LET newKeys == IF layout \in {"new", "both"}
                   THEN { k[1] : k \in DstKeys } ELSE {}
        oldKeys == IF layout \in {"legacy", "both"}
                   THEN { k[2] : k \in DstKeys } \ { k[1] : k \in DstKeys } ELSE {}
    IN [ key \in newKeys \cup oldKeys |->
            IF key \in newKeys
            THEN (CHOOSE k \in DstKeys : k[1] = key)[3]
            ELSE LegacyValue((CHOOSE k \in DstKeys : k[2] = key)[3]) ]

\* system.get(key, default)
SysGet(system, key, default) ==
    IF key \in DOMAIN system THEN system[key] ELSE default

\* sysval(new_key, old_key, default)
sysval(system, new_key, old_key, default) ==
    SysGet(system, new_key, SysGet(system, old_key, default))

\* mutant: the tier chain with "<" in place of "<="
PointsAllowedKeys_Strict(points_allowed) ==
    IF ~points_allowed.nan /\ points_allowed.v = 0
    THEN <<"dst_shutout_points", "dst_points_allowed_0_points", 1000>>
    ELSE IF ~points_allowed.nan /\ points_allowed.v < 6
    THEN <<"dst_1to6_points", "dst_points_allowed_1_6_points", 700>>
    ELSE IF ~points_allowed.nan /\ points_allowed.v < 13
    THEN <<"dst_7to13_points", "dst_points_allowed_7_13_points", 400>>
    ELSE IF ~points_allowed.nan /\ points_allowed.v < 20
    THEN <<"dst_14to20_points", "dst_points_allowed_14_20_points", 100>>
    ELSE IF ~points_allowed.nan /\ points_allowed.v < 27
    THEN <<"dst_21to27_points", "dst_points_allowed_21_27_points", 0>>
    ELSE IF ~points_allowed.nan /\ points_allowed.v < 34
    THEN <<"dst_28to34_points", "dst_points_allowed_28_34_points", -100>>
    ELSE <<"dst_35plus_points", "dst_points_allowed_35_points", -400>>

\* the if/elif chain on points_allowed: the keys and the default it reads
\* (every comparison with NaN is false)
PointsAllowedKeys(points_allowed) ==
    IF ~points_allowed.nan /\ points_allowed.v = 0
    THEN <<"dst_shutout_points", "dst_points_allowed_0_points", 1000>>
    ELSE IF ~points_allowed.nan /\ points_allowed.v <= 6
    THEN <<"dst_1to6_points", "dst_points_allowed_1_6_points", 700>>
    ELSE IF ~points_allowed.nan /\ points_allowed.v <= 13
    THEN <<"dst_7to13_points", "dst_points_allowed_7_13_points", 400>>
    ELSE IF ~points_allowed.nan /\ points_allowed.v <= 20
    THEN <<"dst_14to20_points", "dst_points_allowed_14_20_points", 100>>
    ELSE IF ~points_allowed.nan /\ points_allowed.v <= 27
    THEN <<"dst_21to27_points", "dst_points_allowed_21_27_points", 0>>
    ELSE IF ~points_allowed.nan /\ points_allowed.v <= 34
    THEN <<"dst_28to34_points", "dst_points_allowed_28_34_points", -100>>
    ELSE <<"dst_35plus_points", "dst_points_allowed_35_points", -400>>

\* the answer of a DST call that raised ValueError
DstScoreRaised ==
    [ raised |-> TRUE, points_allowed_score |-> FNum(0), turnovers_score |-> FNum(0),
      sacks_score |-> FNum(0), touchdowns_score |-> FNum(0),
      safety_score |-> FNum(0), bonus_score |-> FNum(0), total_points |-> FNum(0) ]

\* FantasyCalculator.calculate_dst_points; system is the dict
\* scoring_systems[scoring_system] as the table's columns give it
calculate_dst_points(defense_stats, scoring_system, system) ==
    IF scoring_system \notin DOMAIN scoring_systems THEN DstScoreRaised
    ELSE
    LET tier == PointsAllowedKeys(Stat(defense_stats, "points_allowed"))
        pa_score == FNum(sysval(system, tier[1], tier[2], tier[3]))
        turnovers ==
            FAdd(FScale(Stat(defense_stats, "interceptions"),
                        sysval(system, "int_points", "dst_interception_points", 200)),
                 FScale(Stat(defense_stats, "fumbles_recovered"),
                        sysval(system, "fumble_recovery_points",
                               "dst_fumble_recovery_points", 200)))
        sacks == FScale(Stat(defense_stats, "sacks"),
                        sysval(system, "sack_points", "dst_sack_points", 100))
        total_tds == FAdd(FAdd(FAdd(Stat(defense_stats, "defensive_touchdowns"),
                                    Stat(defense_stats, "pick_six")),
                               Stat(defense_stats, "fumble_touchdowns")),
                          Stat(defense_stats, "return_touchdowns"))
        touchdowns == FScale(total_tds,
                        sysval(system, "defensive_td_points", "dst_touchdown_points", 600))
        safety == FScale(Stat(defense_stats, "safeties"),
                        sysval(system, "safety_points", "dst_safety_points", 200))
        yards_allowed == Stat(defense_stats, "yards_allowed")
        bonus == IF ~yards_allowed.nan /\ yards_allowed.v < 100
                 THEN FNum(SysGet(system, "dst_under100_bonus", 0))
                 ELSE IF ~yards_allowed.nan /\ yards_allowed.v < 300
                 THEN FNum(SysGet(system, "dst_under300_bonus", 0))
                 ELSE FNum(0)
    IN [ raised |-> FALSE, points_allowed_score |-> pa_score,
         turnovers_score |-> turnovers, sacks_score |-> sacks,
         touchdowns_score |-> touchdowns, safety_score |-> safety,
         bonus_score |-> bonus,
         total_points |->
            FAdd(FAdd(FAdd(FAdd(FAdd(pa_score, turnovers), sacks), touchdowns),
                      safety), bonus) ]

\* the stat columns calculate_player_points reads
PlayerFields ==
    { "pass_yards", "pass_touchdowns", "pass_interceptions", "rush_yards",
      "rush_touchdowns", "receptions", "receiving_yards",
      "receiving_touchdowns", "rush_fumbles", "receiving_fumbles" }

\* the stat columns calculate_dst_points reads
DstFields ==
    { "points_allowed", "interceptions", "fumbles_recovered", "sacks",
      "defensive_touchdowns", "pick_six", "fumble_touchdowns",
      "return_touchdowns", "safeties", "yards_allowed" }

\* a row holding the given numbers and 0 in every other column
RowOf(fields, given) ==
    [ f \in fields |-> IF f \in DOMAIN given THEN CellNum(given[f]) ELSE CellNum(0) ]

\* box-score rows the inputs are built around
S1Row ==
    RowOf(PlayerFields,
          [ pass_yards |-> 312, pass_touchdowns |-> 2, pass_interceptions |-> 1,
            rush_yards |-> 18, receptions |-> 0 ])

S2Row ==
    RowOf(PlayerFields,
          [ receptions |-> 8, receiving_yards |-> 104, receiving_touchdowns |-> 1,
            rush_yards |-> 12 ])

S3Row ==
    RowOf(DstFields,
          [ points_allowed |-> 7, sacks |-> 3, interceptions |-> 2,
            fumbles_recovered |-> 1, defensive_touchdowns |-> 1 ])

\* the marker of a column the row does not have
CellMissing == [kind |-> "missing", v |-> 0]

\* what a changed cell of a player row may hold
PlayerCellValues ==
    { CellNum(0), CellNum(2), CellNum(99), CellNum(100), CellNum(299),
      CellNum(300), CellBytes(7), CellNone, CellNaN, CellText, CellMissing }

\* what a changed cell of a defense row may hold
DstCellValues ==
    { CellNum(0), CellNum(2), CellNone, CellNaN, CellText, CellMissing }

\* the row with some cells replaced, a replaced-by-missing column dropped
ChangeRow(row, change) ==
    [ f \in (DOMAIN row) \ { g \in DOMAIN change : change[g] = CellMissing } |->
        IF f \in DOMAIN change THEN change[f] ELSE row[f] ]

\* every way to change at most n cells among the fields
Changes(fields, values, n) ==
    UNION { [F -> values] : F \in { G \in SUBSET fields : Cardinality(G) <= n } }

PlayerRows ==
    { ChangeRow(base, change) :
        base \in { S1Row, S2Row, RowOf(PlayerFields, <<>>) },
        change \in Changes(PlayerFields, PlayerCellValues, MaxChangedCells) }

DstRows ==
    { ChangeRow([S3Row EXCEPT !["points_allowed"] = CellNum(pa)], change) :
        pa \in 0..MaxPointsAllowed,
        change \in Changes(DstFields \ {"points_allowed"}, DstCellValues, MaxChangedCells) }
        \cup { ChangeRow(S3Row, change) :
                change \in [{"points_allowed"} -> DstCellValues] }

\* calculate_player_points(game_stats, scoring_system)
CalculatePlayerPoints ==
    /\ scoreArgs.op = "player"
    /\ scoreResult = <<>>
    /\ scoreResult' =
          << calculate_player_points(scoreArgs.row, scoreArgs.scoring_system) >>
    /\ UNCHANGED scoreArgs

\* calculate_dst_points(defense_stats, scoring_system)
CalculateDstPoints ==
    /\ scoreArgs.op = "dst"
    /\ scoreResult = <<>>
    /\ scoreResult' =
          << calculate_dst_points(scoreArgs.row, scoreArgs.scoring_system,
                                  DstSystem(scoreArgs.layout)) >>
    /\ UNCHANGED scoreArgs

(***************************************************************************)
(* Week readiness: src/app.py, with the ingestion steps that write the     *)
(* tables it reads. A game id is a record: kind says whether it is a       *)
(* schedule id ("2020_09_KC_LV") or the id the weekly collector composes   *)
(* ("2020_9_KC_vs_LV"); pair stands for the two teams, order and aliases   *)
(* set aside. The model keeps one game_stats row per game id.              *)
(***************************************************************************)
OfficialId(season, week, pair) ==
    [kind |-> "official", season |-> season, week |-> week, pair |-> pair]

\* NFLDataCollector._collect_season_games_and_stats composes this id
SyntheticId(season, week, pair) ==
    [kind |-> "synthetic", season |-> season, week |-> week, pair |-> pair]

\* game_id LIKE '%/_vs_%' ESCAPE '/' OR game_id LIKE '%_vs_%'
LikeVs(game_id) == game_id.kind = "synthetic"

\* how far ingestion has come for one game of a week
Stages ==
    { "absent", "stub", "scheduled", "scheduled_stub", "final", "final_stub",
      "final_mapped" }

\* the rows ingestion has written to games for one game at a stage
StageGames(stage, season, week, pair) ==
    (IF stage \in {"scheduled", "scheduled_stub"}
     THEN {[game_id |-> OfficialId(season, week, pair), scored |-> FALSE]}
     ELSE IF stage \in {"final", "final_stub", "final_mapped"}
     THEN {[game_id |-> OfficialId(season, week, pair), scored |-> TRUE]}
     ELSE {})
    \cup
    (IF stage \in {"stub", "scheduled_stub", "final_stub"}
     THEN {[game_id |-> SyntheticId(season, week, pair), scored |-> FALSE]}
     ELSE {})

\* the game ids ingestion has written to game_stats for one game at a stage
StageStats(stage, season, week, pair) ==
    IF stage \in {"stub", "scheduled_stub", "final_stub"}
    THEN {SyntheticId(season, week, pair)}
    ELSE IF stage = "final_mapped" THEN {OfficialId(season, week, pair)}
    ELSE {}

\* the week the detailed runs look at, and its empty neighbour
FocusWeek == <<2020, 9>>

EmptyWeek == <<2020, 8>>

\* number of team_defense_stats rows of a week
DstRowsOf(season, week) ==
    IF <<season, week>> \in DOMAIN team_defense_stats
    THEN team_defense_stats[<<season, week>>] ELSE 0

\* if total > 0 and scored == total and dst == total * 2 and synth == 0
ReadyVerdict(total, scored, dst, synth) ==
    total > 0 /\ scored = total /\ dst = total * 2 /\ synth = 0

\* _week_ready(season, week): the dict it returns
_week_ready(season, week) ==
    LET weekGames == { g \in games : g.game_id.season = season /\ g.game_id.week = week }
        total == Cardinality(weekGames)
        scored == Cardinality({ g \in weekGames : g.scored })
        dst == DstRowsOf(season, week)
        synth == Cardinality({ id \in game_stats_rows :
                                  /\ id \in { g.game_id : g \in weekGames }
                                  /\ LikeVs(id) })
        out == [season |-> season, week |-> week, ready |-> FALSE, games |-> 0,
                scored_games |-> 0, dst_rows |-> 0, synthetic_ids |-> 0]
    IN  IF ~dbUp THEN out
        ELSE [out EXCEPT !.games = total, !.scored_games = scored,
                         !.dst_rows = dst, !.synthetic_ids = synth,
                         !.ready = ReadyVerdict(total, scored, dst, synth)]

\* range(18, 0, -1), range(season - 1, season - 5, -1), if s < 2000: break
WeeksScanned == 18

PriorSeasons == 4

FirstSeason == 2000

NoWeek == <<>>

RECURSIVE ScanWeeks(_, _)
\* for w in range(from, 0, -1): the first ready week, or none
ScanWeeks(season, from) ==
    IF from < 1 THEN NoWeek
    ELSE IF _week_ready(season, from).ready THEN <<season, from>>
    ELSE ScanWeeks(season, from - 1)

RECURSIVE ScanSeasons(_, _)
\* for s in range(from, stop, -1), stopping below FirstSeason
ScanSeasons(from, stop) ==
    IF from <= stop \/ from < FirstSeason THEN NoWeek
    ELSE LET found == ScanWeeks(from, WeeksScanned)
         IN  IF found # NoWeek THEN found ELSE ScanSeasons(from - 1, stop)

\* mutant: the scan of the season at hand starts at the week itself
_latest_ready_before_Inclusive(season, week) ==
    LET found == ScanWeeks(season, week)
    IN  IF found # NoWeek THEN found
        ELSE ScanSeasons(season - 1, season - 1 - PriorSeasons)

\* _latest_ready_before(season, week)
_latest_ready_before(season, week) ==
    LET found == ScanWeeks(season, week - 1)
    IN  IF found # NoWeek THEN found
        ELSE ScanSeasons(season - 1, season - 1 - PriorSeasons)

\* the calls the runs make
WeekReadyRequests == { FocusWeek, EmptyWeek }

LatestRequests == { <<2001, 1>>, <<2001, 3>>, <<2005, 1>>, <<2005, 3>> }

\* _week_ready called
WeekReady ==
    \E key \in WeekReadyRequests :
        /\ readyArgs' = [op |-> "week_ready", season |-> key[1], week |-> key[2]]
        /\ readyResult' = <<_week_ready(key[1], key[2])>>
        /\ UNCHANGED <<games, game_stats_rows, team_defense_stats, dbUp>>

\* _latest_ready_before called
LatestReadyBefore ==
    \E key \in LatestRequests :
        /\ readyArgs' = [op |-> "latest_ready_before", season |-> key[1], week |-> key[2]]
        /\ readyResult' = <<_latest_ready_before(key[1], key[2])>>
        /\ UNCHANGED <<games, game_stats_rows, team_defense_stats, dbUp>>

\* the official games a synthetic id is matched to (season, week, team pair)
OfficialMatches(sid) ==
    { g.game_id : g \in { h \in games :
        /\ h.game_id.kind = "official"
        /\ h.game_id.season = sid.season
        /\ h.game_id.week = sid.week
        /\ h.game_id.pair = sid.pair } }

\* normalize_game_ids(db, seasons, delete_stub_games); an earlier readiness
\* answer does not speak of the tables as they are afterwards
NormalizeGameIds ==
    \E seasons \in { {}, {FocusWeek[1]}, {FocusWeek[1] + 1} }, delete_stub_games \in BOOLEAN :
        LET candidates ==
                { id \in game_stats_rows :
                    /\ LikeVs(id) \/ id \notin { g.game_id : g \in games }
                    /\ seasons = {} \/ id.season \in seasons }
            updates ==
                { sid \in candidates :
                    /\ sid.kind = "synthetic"
                    /\ Cardinality(OfficialMatches(sid)) = 1 }
        IN  /\ game_stats_rows' =
                (game_stats_rows \ updates)
                    \cup UNION { OfficialMatches(sid) : sid \in updates }
            /\ games' =
                IF delete_stub_games /\ updates # {}
                THEN { g \in games : ~LikeVs(g.game_id) }
                ELSE games
            /\ readyArgs' = [op |-> "none"]
            /\ readyResult' = <<>>
            /\ UNCHANGED <<team_defense_stats, dbUp>>

RECURSIVE SubsetsUpTo(_, _)
\* the subsets of S with at most n elements
SubsetsUpTo(S, n) ==
    IF n = 0 THEN {{}}
    ELSE LET smaller == SubsetsUpTo(S, n - 1)
         IN  smaller \cup { sub \cup {x} : sub \in smaller, x \in S }

\* the weeks the scans' runs may hold data for: around both ends of a
\* season, inside and outside the window of every request
PopulatedWeeks ==
    {1999, 2000, 2001, 2004, 2005} \X {1, 2, WeeksScanned, WeeksScanned + 1}

\* a populated week of those runs: its one game's stage and its
\* team_defense_stats rows
WeekShapes ==
    { [stage |-> "final_mapped", dst |-> 2], [stage |-> "scheduled", dst |-> 0] }

(***************************************************************************)
(* Basic lineup composer: src/src/gameday_predictor.py                     *)
(***************************************************************************)
LineupPositions == <<"QB", "RB", "WR", "TE">>

\* positions a prediction may carry, kickers among them
PredictionPositions == {"QB", "RB", "WR", "TE", "K"}

\* predicted_points of the runs, ties included
LineupPoints == {500, 1200}

\* by_position[pos]: the predictions of a position in list order
RECURSIVE ByPosition(_, _)
ByPosition(predictions, pos) ==
    IF predictions = <<>> THEN <<>>
    ELSE IF Head(predictions).position = pos
    THEN <<Head(predictions)>> \o ByPosition(Tail(predictions), pos)
    ELSE ByPosition(Tail(predictions), pos)

\* one element put into a list sorted by predicted_points descending, after
\* the elements that are not smaller
RECURSIVE InsertByPoints(_, _)
InsertByPoints(sorted, pred) ==
    IF sorted = <<>> THEN <<pred>>
    ELSE IF Head(sorted).predicted_points >= pred.predicted_points
    THEN <<Head(sorted)>> \o InsertByPoints(Tail(sorted), pred)
    ELSE <<pred>> \o sorted

\* list.sort(key=predicted_points, reverse=True): stable, descending
RECURSIVE SortByPoints(_)
SortByPoints(list) ==
    IF list = <<>> THEN <<>>
    ELSE InsertByPoints(SortByPoints(SubSeq(list, 1, Len(list) - 1)), list[Len(list)])

\* mutant: one slot more for every position
SlotCount_Wide(position) ==
    IF position = "RB" THEN 3 ELSE IF position = "WR" THEN 4 ELSE 2

\* [:2] for RB, [:3] for WR, [:1] for QB and TE
SlotCount(position) ==
    IF position = "RB" THEN 2 ELSE IF position = "WR" THEN 3 ELSE 1

\* list[:k]
Take(list, k) == SubSeq(list, 1, IF Len(list) < k THEN Len(list) ELSE k)

RECURSIVE SumPoints(_)
SumPoints(list) ==
    IF list = <<>> THEN 0 ELSE Head(list).predicted_points + SumPoints(Tail(list))

\* _generate_optimal_lineups(predictions, scoring_system)
_generate_optimal_lineups(predictions) ==
    LET by_position ==
            [pos \in { predictions[i].position : i \in 1..Len(predictions) } |->
                SortByPoints(ByPosition(predictions, pos))]
        filled == { LineupPositions[i] : i \in 1..Len(LineupPositions) }
                      \cap DOMAIN by_position
        optimal_lineup == [pos \in filled |-> Take(by_position[pos], SlotCount(pos))]
        total_projected ==
            LET RECURSIVE Total(_)
                Total(i) ==
                    IF i > Len(LineupPositions) THEN 0
                    ELSE (IF LineupPositions[i] \in filled
                          THEN SumPoints(optimal_lineup[LineupPositions[i]])
                          ELSE 0) + Total(i + 1)
            IN  Total(1)
    IN  [optimal |-> [players |-> optimal_lineup, total_projected |-> total_projected]]

\* _generate_optimal_lineups called
GenerateOptimalLineups ==
    /\ lineupResult = <<>>
    /\ lineupResult' = <<_generate_optimal_lineups(lineupPredictions)>>
    /\ UNCHANGED lineupPredictions

(***************************************************************************)
(* Salary-aware composer: src/src/lineup_optimizer.py                      *)
(* Salaries are in dollars, projected points in hundredths.                *)
(***************************************************************************)
\* LineupSimulator.default_constraints
default_constraints ==
    [ positions |-> [QB |-> 1, RB |-> 2, WR |-> 3, TE |-> 1, FLEX |-> 1, DST |-> 1],
      salary_cap |-> 50000, min_teams |-> 2, max_players_per_team |-> 4 ]

\* constraints a caller passes instead: a small budget, one player per team
TightConstraints ==
    [ positions |-> [QB |-> 1, RB |-> 2, WR |-> 3, TE |-> 1, FLEX |-> 1, DST |-> 1],
      salary_cap |-> 19500, min_teams |-> 2, max_players_per_team |-> 1 ]

Projection(id, position, team, salary, points) ==
    [ player_id |-> id, position |-> position, team |-> team, salary |-> salary,
      projected_points |-> points ]

\* the players the runs draw their projections from, salaries within the
\* ranges _estimate_salary and _estimate_dst_salary allow
Roster ==
    << Projection(1, "RB", "A", 10000, 2500), Projection(2, "RB", "A", 10000, 2400),
       Projection(3, "WR", "A", 9500, 2300), Projection(4, "WR", "A", 9500, 2200),
       Projection(5, "WR", "A", 9500, 2100), Projection(6, "RB", "B", 8000, 1900),
       Projection(7, "WR", "B", 9500, 1800), Projection(8, "DST", "B", 3000, 500),
       Projection(9, "TE", "B", 4000, 600), Projection(10, "QB", "B", 4500, 650) >>

\* cheaper players of three teams, for lineups the budget does not cut short
BudgetRoster ==
    << Projection(11, "RB", "A", 4000, 1200), Projection(12, "RB", "B", 4000, 1100),
       Projection(13, "RB", "C", 4500, 1000), Projection(14, "WR", "A", 4000, 1300),
       Projection(15, "WR", "B", 4200, 1150), Projection(16, "WR", "C", 4400, 1050),
       Projection(17, "WR", "A", 4600, 1000), Projection(18, "QB", "B", 4500, 900),
       Projection(19, "TE", "C", 3500, 680), Projection(20, "TE", "A", 3600, 650) >>

\* a.value > b.value for value = projected_points / (salary / 1000)
ValueGreater(a, b) == a.projected_points * b.salary > b.projected_points * a.salary

RECURSIVE InsertByValue(_, _)
InsertByValue(sorted, proj) ==
    IF sorted = <<>> THEN <<proj>>
    ELSE IF ValueGreater(proj, Head(sorted)) THEN <<proj>> \o sorted
    ELSE <<Head(sorted)>> \o InsertByValue(Tail(sorted), proj)

\* projections.sort(key=value, reverse=True): stable, descending
RECURSIVE SortByValue(_)
SortByValue(list) ==
    IF list = <<>> THEN <<>>
    ELSE InsertByValue(SortByValue(SubSeq(list, 1, Len(list) - 1)), list[Len(list)])

\* position_needs after the FLEX count is added to RB, WR and TE
FlexNeeds(positions) ==
    IF "FLEX" \in DOMAIN positions
    THEN [pos \in (DOMAIN positions \ {"FLEX"}) \cup {"RB", "WR", "TE"} |->
            (IF pos \in DOMAIN positions THEN positions[pos] ELSE 0)
                + (IF pos \in {"RB", "WR", "TE"} THEN positions["FLEX"] ELSE 0)]
    ELSE positions

\* constraints, or default_constraints when None was passed
Constraints == IF constraintsArg = <<>> THEN default_constraints ELSE constraintsArg[1]

\* mutant: every player is affordable
CanAfford_Always(proj, remaining) == TRUE

\* not (proj.salary > remaining_salary)
CanAfford(proj, remaining) == ~(proj.salary > remaining)

\* team_count >= constraints.max_players_per_team
TeamFull(selected, team, constraints) ==
    Cardinality({ i \in 1..Len(selected) : selected[i].team = team })
        >= constraints.max_players_per_team

RECURSIVE SumSalary(_)
SumSalary(list) == IF list = <<>> THEN 0 ELSE Head(list).salary + SumSalary(Tail(list))

RECURSIVE SumProjected(_)
SumProjected(list) ==
    IF list = <<>> THEN 0 ELSE Head(list).projected_points + SumProjected(Tail(list))

\* _create_lineup_result(players, constraints)
_create_lineup_result(players) ==
    [ players |-> players,
      total_projected_points |-> SumProjected(players),
      total_salary |-> SumSalary(players),
      teams_used |-> { players[i].team : i \in 1..Len(players) },
      score |-> SumProjected(players) ]

\* optimize_lineup_greedy up to the loop: values, sort, needs
OptimizeLineupGreedy ==
    /\ greedyPc = "idle"
    /\ projections' = SortByValue(projections)
    /\ selected_players' = <<>>
    /\ remaining_salary' = Constraints.salary_cap
    /\ position_needs' = FlexNeeds(Constraints.positions)
    /\ greedyIndex' = 1
    /\ greedyPc' = "loop"
    /\ UNCHANGED <<constraintsArg, greedyResult>>

\* one iteration of "for proj in projections"
GreedyStep ==
    /\ greedyPc = "loop"
    /\ greedyIndex <= Len(projections)
    /\ LET proj == projections[greedyIndex]
           need == IF proj.position \in DOMAIN position_needs
                   THEN position_needs[proj.position] ELSE 0
           needs == [position_needs EXCEPT ![proj.position] = @ - 1]
       IN  IF need <= 0 \/ ~CanAfford(proj, remaining_salary)
                \/ TeamFull(selected_players, proj.team, Constraints)
           THEN /\ UNCHANGED <<selected_players, remaining_salary, position_needs>>
                /\ greedyPc' = "loop"
           ELSE /\ selected_players' = Append(selected_players, proj)
                /\ remaining_salary' = remaining_salary - proj.salary
                /\ position_needs' = needs
                /\ greedyPc' = IF \A pos \in DOMAIN needs : needs[pos] <= 0
                               THEN "return" ELSE "loop"
    /\ greedyIndex' = greedyIndex + 1
    /\ UNCHANGED <<projections, constraintsArg, greedyResult>>

\* return self._create_lineup_result(selected_players, constraints)
GreedyReturn ==
    /\ \/ greedyPc = "return"
       \/ greedyPc = "loop" /\ greedyIndex > Len(projections)
    /\ greedyResult' = <<_create_lineup_result(selected_players)>>
    /\ greedyPc' = "done"
    /\ UNCHANGED <<projections, constraintsArg, greedyIndex, selected_players,
                   remaining_salary, position_needs>>

(***************************************************************************)
(* Matchup analysis: src/src/matchup_analyzer.py                           *)
(* A number is an exact fraction [num, den] with den > 0.                  *)
(***************************************************************************)
RECURSIVE Gcd(_, _)
Gcd(a, b) == IF b = 0 THEN a ELSE Gcd(b, a % b)

Abs(x) == IF x < 0 THEN -x ELSE x

\* the fraction num / den in lowest terms
Rat(num, den) ==
    LET g == Gcd(Abs(num), den)
    IN  [num |-> num \div g, den |-> den \div g]

RAdd(a, b) == Rat(a.num * b.den + b.num * a.den, a.den * b.den)

RSub(a, b) == Rat(a.num * b.den - b.num * a.den, a.den * b.den)

\* a times the fraction num / den
RTimes(a, num, den) == Rat(a.num * num, a.den * den)

RLess(a, b) == a.num * b.den < b.num * a.den

\* min(a, b) and max(a, b) of Python: b when it is smaller (greater), else a
RMin(a, b) == IF RLess(b, a) THEN b ELSE a

RMax(a, b) == IF RLess(a, b) THEN b ELSE a

RECURSIVE SumField(_, _)
SumField(rows, field) ==
    IF rows = <<>> THEN 0 ELSE Head(rows)[field] + SumField(Tail(rows), field)

\* total / games_analyzed
PerGame(rows, field) == Rat(SumField(rows, field), Len(rows))

\* OffensiveStrength(team_id, season, week): the defaults
NoOffense ==
    [ points_per_game |-> Rat(0, 1), yards_per_game |-> Rat(0, 1),
      turnovers_per_game |-> Rat(0, 1), sacks_allowed_per_game |-> Rat(0, 1),
      offensive_score |-> Rat(0, 1) ]

\* calculate_offensive_strength over the rows the query returned
calculate_offensive_strength(recent_games) ==
    IF recent_games = <<>> THEN NoOffense
    ELSE
        LET points_per_game == PerGame(recent_games, "team_points")
            yards_per_game ==
                RAdd(PerGame(recent_games, "team_pass_yards"),
                     PerGame(recent_games, "team_rush_yards"))
            tds_per_game ==
                RAdd(PerGame(recent_games, "team_pass_tds"),
                     RAdd(PerGame(recent_games, "team_rush_tds"),
                          PerGame(recent_games, "team_rec_tds")))
            turnovers_per_game == PerGame(recent_games, "team_turnovers")
            points_score == RMin(Rat(100, 1), RTimes(points_per_game, 100, 30))
            yards_score == RMin(Rat(100, 1), RTimes(yards_per_game, 100, 400))
            td_score == RMin(Rat(100, 1), RTimes(tds_per_game, 100, 3))
            turnover_score ==
                RMax(Rat(0, 1), RSub(Rat(100, 1), RTimes(turnovers_per_game, 25, 1)))
        IN  [ points_per_game |-> points_per_game,
              yards_per_game |-> yards_per_game,
              turnovers_per_game |-> turnovers_per_game,
              sacks_allowed_per_game |-> PerGame(recent_games, "team_sacks_allowed"),
              offensive_score |->
                  RAdd(RAdd(RTimes(points_score, 4, 10), RTimes(yards_score, 3, 10)),
                       RAdd(RTimes(td_score, 2, 10), RTimes(turnover_score, 1, 10))) ]

\* DefensiveStrength(team_id, season, week): the defaults
NoDefense ==
    [ points_allowed_per_game |-> Rat(0, 1), yards_allowed_per_game |-> Rat(0, 1),
      sacks_per_game |-> Rat(0, 1), turnovers_forced_per_game |-> Rat(0, 1),
      defensive_score |-> Rat(0, 1) ]

\* calculate_defensive_strength over the rows the query returned
calculate_defensive_strength(recent_games) ==
    IF recent_games = <<>> THEN NoDefense
    ELSE
        LET points_allowed_per_game == PerGame(recent_games, "points_allowed")
            yards_allowed_per_game == PerGame(recent_games, "yards_allowed")
            sacks_per_game == PerGame(recent_games, "sacks")
            turnovers_forced_per_game ==
                RAdd(PerGame(recent_games, "interceptions"),
                     PerGame(recent_games, "fumbles_recovered"))
            points_score ==
                RMax(Rat(0, 1),
                     RMin(Rat(100, 1),
                          RSub(Rat(100, 1),
                               RTimes(RSub(points_allowed_per_game, Rat(14, 1)), 3, 1))))
            yards_score ==
                RMax(Rat(0, 1),
                     RMin(Rat(100, 1),
                          RSub(Rat(100, 1),
                               RTimes(RSub(yards_allowed_per_game, Rat(250, 1)), 2, 10))))
            turnover_score == RMin(Rat(100, 1), RTimes(turnovers_forced_per_game, 40, 1))
            sack_score == RMin(Rat(100, 1), RTimes(sacks_per_game, 25, 1))
        IN  [ points_allowed_per_game |-> points_allowed_per_game,
              yards_allowed_per_game |-> yards_allowed_per_game,
              sacks_per_game |-> sacks_per_game,
              turnovers_forced_per_game |-> turnovers_forced_per_game,
              defensive_score |->
                  RAdd(RAdd(RTimes(points_score, 4, 10), RTimes(yards_score, 3, 10)),
                       RAdd(RTimes(turnover_score, 2, 10), RTimes(sack_score, 1, 10))) ]

\* max(0.5, min(1.5, x))
ClampModifier(x) == RMax(Rat(1, 2), RMin(Rat(3, 2), x))

\* analyze_matchup, given the rows its two queries returned
analyze_matchup(offense_rows, defense_rows) ==
    LET offense == calculate_offensive_strength(offense_rows)
        defense == calculate_defensive_strength(defense_rows)
        offensive_advantage == RSub(offense.offensive_score, defense.defensive_score)
        defensive_advantage == RSub(defense.defensive_score, offense.offensive_score)
    IN  [ offense_strength |-> offense,
          defense_strength |-> defense,
          offensive_advantage |-> offensive_advantage,
          defensive_advantage |-> defensive_advantage,
          points_modifier |->
              ClampModifier(RAdd(Rat(1, 1), RTimes(offensive_advantage, 1, 200))),
          turnover_modifier |->
              ClampModifier(RAdd(Rat(1, 1), RTimes(defensive_advantage, 1, 200))),
          sack_modifier |->
              ClampModifier(RAdd(Rat(1, 1),
                                 RTimes(RSub(defense.sacks_per_game,
                                             offense.sacks_allowed_per_game), 1, 5))) ]

OffenseGame(points, pass_yards, rush_yards, pass_tds, rush_tds, turnovers, sacks) ==
    [ team_points |-> points, team_pass_yards |-> pass_yards,
      team_rush_yards |-> rush_yards, team_pass_tds |-> pass_tds,
      team_rush_tds |-> rush_tds, team_rec_tds |-> pass_tds,
      team_turnovers |-> turnovers, team_sacks_allowed |-> sacks ]

\* games of the runs: an ordinary one, a blowout, a shutout with lost
\* yardage and turnovers, one with few box-score rows
OffenseGames ==
    { OffenseGame(24, 250, 110, 2, 1, 1, 2), OffenseGame(52, 480, 210, 5, 2, 0, 0),
      OffenseGame(0, -4, -6, 0, 0, 5, 9), OffenseGame(3, 40, -12, 0, 0, 4, 6),
      OffenseGame(30, 300, 100, 2, 1, 0, 1) }

DefenseGame(points_allowed, yards_allowed, sacks, interceptions, fumbles_recovered) ==
    [ points_allowed |-> points_allowed, yards_allowed |-> yards_allowed,
      sacks |-> sacks, interceptions |-> interceptions,
      fumbles_recovered |-> fumbles_recovered ]

DefenseGames ==
    { DefenseGame(0, 90, 9, 3, 2), DefenseGame(14, 250, 4, 1, 1),
      DefenseGame(55, 780, 0, 0, 0), DefenseGame(27, 410, 2, 1, 0) }

\* analyze_matchup called
AnalyzeMatchup ==
    /\ matchupResult = <<>>
    /\ matchupResult' = <<analyze_matchup(offenseGames, defenseGames)>>
    /\ UNCHANGED <<offenseGames, defenseGames>>

(***************************************************************************)
(* Per-position models: src/src/prediction_model.py                        *)
(* A model is known by the number of the call that put it in               *)
(* PlayerPredictor.models; 0 says the dict has no key for the position.    *)
(***************************************************************************)
ModelPositions == { "QB", "RB", "WR", "TE", "DST" }

\* "if len(data) < 50" in train_models and train_dst_model
MinExamples == 50

\* the numbers of training examples a position may have
ExampleCounts == { MinExamples - 1, MinExamples }

NoTrain == [called |-> FALSE, skipped |-> {}]

NoPositionPrediction == [position |-> "none", model |-> 0]

\* train_models followed by its train_dst_model: a position with fewer than
\* MinExamples examples is passed over, the others get the model fitted by
\* this call
train_models(current, examples, call) ==
    [pos \in ModelPositions |->
        IF examples[pos] < MinExamples THEN current[pos] ELSE call]

\* PlayerPredictor.train_models(seasons, scoring_system)
TrainPositionModels(examples) ==
    /\ trainings < MaxTrainings
    /\ trainings' = trainings + 1
    /\ models' = train_models(models, examples, trainings + 1)
    /\ lastTrain' = [called |-> TRUE,
                     skipped |-> { pos \in ModelPositions : examples[pos] < MinExamples }]
    /\ positionPrediction' = NoPositionPrediction

\* PlayerPredictor.load_models(filepath): the dict of the pickle replaces
\* self.models
LoadPositionModels(keys) ==
    /\ trainings < MaxTrainings
    /\ trainings' = trainings + 1
    /\ models' = [pos \in ModelPositions |-> IF pos \in keys THEN trainings + 1 ELSE 0]
    /\ lastTrain' = NoTrain
    /\ positionPrediction' = NoPositionPrediction

\* predict_player_points / predict_dst_points for a player of the position
\* with enough history: None without a key in self.models, else the value
\* of the model under the key
PredictPosition(position) ==
    /\ positionPrediction' = [position |-> position, model |-> models[position]]
    /\ UNCHANGED <<models, trainings, lastTrain>>

(***************************************************************************)
(* One gameday call: src/src/gameday_predictor.py get_gameday_predictions  *)
(* with include_injury_adjustments. Every step that needs injuries asks    *)
(* the endpoint again (InjuryCollector.get_current_injuries); a failed     *)
(* request answers the empty list.                                         *)
(***************************************************************************)

\* the injury records of the runs
FeedInjuries ==
    { inj \in PlayerInjury :
        /\ inj.player_name \in { <<"j", "o">>, <<"K", "y">> }
        /\ inj.status \in { "Out", "Questionable" }
        /\ inj.fantasy_status = (IF inj.status = "Out" THEN "INACTIVE" ELSE "ACTIVE") }

\* the base predictions of steps 2 and 3
GamedayPrediction ==
    { [player_name |-> n, predicted_points |-> 1800, injury_adjustment |-> {},
       position |-> pos] :
        n \in { <<"J", "o">>, <<"K", "y">> }, pos \in { "QB", "RB" } }

NoReport == [out_players |-> <<>>, questionable_players |-> <<>>]

\* the endpoint's answer changes between two requests
FeedChanges(injuries) ==
    /\ gamedayPc # "done"
    /\ feedChanges < MaxFeedChanges
    /\ injuries # injuryFeed
    /\ injuryFeed' = injuries
    /\ feedChanges' = feedChanges + 1
    /\ UNCHANGED <<gamedayPc, injury_report, player_predictions, optimal_lineups>>

\* get_gameday_report, first request: get_out_players
ReportOutPlayers ==
    /\ gamedayPc = "report"
    /\ injury_report' = [NoReport EXCEPT !.out_players = get_out_players(injuryFeed)]
    /\ gamedayPc' = "questionable"
    /\ UNCHANGED <<injuryFeed, feedChanges, player_predictions, optimal_lineups>>

\* get_gameday_report, second request: the questionable players; steps 2
\* and 3 then give the base predictions
ReportQuestionable ==
    /\ gamedayPc = "questionable"
    /\ injury_report' =
            [injury_report EXCEPT
                !.questionable_players = SelectSeq(injuryFeed, is_questionable)]
    /\ gamedayPc' = "filter"
    /\ UNCHANGED <<injuryFeed, feedChanges, player_predictions, optimal_lineups>>

\* step 4: filter_out_players
GamedayFilterOut ==
    /\ gamedayPc = "filter"
    /\ player_predictions' = filter_out_players(player_predictions, injuryFeed)
    /\ gamedayPc' = "adjust"
    /\ UNCHANGED <<injuryFeed, feedChanges, injury_report, optimal_lineups>>

\* step 4: apply_injury_adjustments
GamedayAdjust ==
    /\ gamedayPc = "adjust"
    /\ player_predictions' = apply_injury_adjustments(player_predictions, injuryFeed)
    /\ gamedayPc' = "lineups"
    /\ UNCHANGED <<injuryFeed, feedChanges, injury_report, optimal_lineups>>

\* step 5: _generate_optimal_lineups; the dict is returned after step 6,
\* which changes none of these
GamedayLineups ==
    /\ gamedayPc = "lineups"
    /\ optimal_lineups' = <<_generate_optimal_lineups(player_predictions)>>
    /\ gamedayPc' = "done"
    /\ UNCHANGED <<injuryFeed, feedChanges, injury_report, player_predictions>>

(***************************************************************************)
(* Specifications. Each one runs one component and holds the others still. *)
(***************************************************************************)

\* The values a component holds in the specifications that do not run it.
InjuryAtRest ==
    /\ injurySource = <<>>
    /\ playerPredictions = <<>>
    /\ opInput = <<>>
    /\ lastOp = "none"

FeaturesAtRest ==
    /\ gameStats = [p \in Players |-> {}]
    /\ fittedPositions = {}
    /\ featureCache = <<>>
    /\ lastCall = NoCall

StoreAtRest ==
    /\ booted = FALSE
    /\ dbLatest = <<2020, 1>>
    /\ files = [p \in Paths |-> NoFile]
    /\ currentJson = [slug \in { _safe_scoring(sc) : sc \in ScoringSystems } |-> NoPointer]
    /\ resident = NoModel
    /\ predictionCache = {}
    /\ threads = [t \in ThreadIds |-> IdleThread]

DstAtRest ==
    /\ currentInjuries = <<>>
    /\ dstBase = <<>>
    /\ dstPredictions = <<>>
    /\ dstCalled = FALSE

ScoringAtRest ==
    /\ scoreArgs = [op |-> "none"]
    /\ scoreResult = <<>>

ReadyAtRest ==
    /\ games = {}
    /\ game_stats_rows = {}
    /\ team_defense_stats = <<>>
    /\ dbUp = TRUE
    /\ readyArgs = [op |-> "none"]
    /\ readyResult = <<>>

LineupAtRest ==
    /\ lineupPredictions = <<>>
    /\ lineupResult = <<>>

GreedyAtRest ==
    /\ projections = <<>>
    /\ constraintsArg = <<>>
    /\ greedyPc = "idle"
    /\ greedyIndex = 1
    /\ selected_players = <<>>
    /\ remaining_salary = 0
    /\ position_needs = <<>>
    /\ greedyResult = <<>>

MatchupAtRest ==
    /\ offenseGames = <<>>
    /\ defenseGames = <<>>
    /\ matchupResult = <<>>

TrainAtRest ==
    /\ models = [pos \in ModelPositions |-> 0]
    /\ trainings = 0
    /\ lastTrain = NoTrain
    /\ positionPrediction = NoPositionPrediction

GamedayAtRest ==
    /\ injuryFeed = <<>>
    /\ feedChanges = 0
    /\ gamedayPc = "done"
    /\ injury_report = NoReport
    /\ player_predictions = <<>>
    /\ optimal_lineups = <<>>

\* Inputs of the injury filter: any injury list and any prediction list.
InitInjury ==
    /\ injurySource \in SeqsUpTo(PlayerInjury, MaxInjuries)
    /\ playerPredictions \in SeqsUpTo(Prediction, MaxPredictions)
    /\ opInput = <<>>
    /\ lastOp = "none"
    /\ FeaturesAtRest
    /\ StoreAtRest
    /\ DstAtRest
    /\ ScoringAtRest
    /\ ReadyAtRest
    /\ LineupAtRest
    /\ GreedyAtRest
    /\ MatchupAtRest
    /\ TrainAtRest
    /\ GamedayAtRest

NextInjury ==
    \/ FilterOutPlayers /\ UNCHANGED <<featureVars, storeVars, dstVars, scoringVars, readyVars, lineupVars, greedyVars, matchupVars, trainVars, gamedayVars>>
    \/ ApplyInjuryAdjustments /\ UNCHANGED <<featureVars, storeVars, dstVars, scoringVars, readyVars, lineupVars, greedyVars, matchupVars, trainVars, gamedayVars>>

SpecInjury == InitInjury /\ [][NextInjury]_vars

\* A predictor just constructed (empty cache) over any box-score history.
InitFeatures ==
    /\ gameStats \in [Players -> SUBSET GameKeys]
    /\ fittedPositions \in SUBSET { PositionOf(p) : p \in Players }
    /\ featureCache = <<>>
    /\ lastCall = NoCall
    /\ InjuryAtRest
    /\ StoreAtRest
    /\ DstAtRest
    /\ ScoringAtRest
    /\ ReadyAtRest
    /\ LineupAtRest
    /\ GreedyAtRest
    /\ MatchupAtRest
    /\ TrainAtRest
    /\ GamedayAtRest

NextFeatures ==
    \/ \E ids \in SUBSET Players, k \in GameKeys :
           PreparePredictionCache(ids, k[2], k[1])
           /\ UNCHANGED <<injuryVars, storeVars, dstVars, scoringVars, readyVars, lineupVars, greedyVars, matchupVars, trainVars, gamedayVars>>
    \/ \E pid \in Players, k \in GameKeys :
           PredictPlayerPoints(pid, k[2], k[1])
           /\ UNCHANGED <<injuryVars, storeVars, dstVars, scoringVars, readyVars, lineupVars, greedyVars, matchupVars, trainVars, gamedayVars>>

SpecFeatures == InitFeatures /\ [][NextFeatures]_vars

\* The process before its startup block runs: an empty models directory,
\* possibly a legacy flat file left by an earlier build (fitted with the
\* feature columns of this build or with other ones), and a database
\* ingested up to some week.
Init ==
    /\ booted = FALSE
    /\ dbLatest \in DbStates
    /\ \E legacy \in { NoFile,
                       [exists |-> TRUE, complete |-> TRUE,
                        model |-> LegacyModel(BuilderSchema)],
                       [exists |-> TRUE, complete |-> TRUE,
                        model |-> LegacyModel(OtherSchema)] } :
          files = [p \in Paths |->
                      IF p = _legacy_model_path_for_scoring(DefaultScoring)
                      THEN legacy ELSE NoFile]
    /\ currentJson = [slug \in { _safe_scoring(sc) : sc \in ScoringSystems } |-> NoPointer]
    /\ resident = NoModel
    /\ predictionCache = {}
    /\ threads = [t \in ThreadIds |-> IdleThread]
    /\ InjuryAtRest
    /\ FeaturesAtRest
    /\ DstAtRest
    /\ ScoringAtRest
    /\ ReadyAtRest
    /\ LineupAtRest
    /\ GreedyAtRest
    /\ MatchupAtRest
    /\ TrainAtRest
    /\ GamedayAtRest

Next ==
    \/ Startup /\ UNCHANGED <<injuryVars, featureVars, dstVars, scoringVars, readyVars, lineupVars, greedyVars, matchupVars, trainVars, gamedayVars>>
    \/ Restart /\ UNCHANGED <<injuryVars, featureVars, dstVars, scoringVars, readyVars, lineupVars, greedyVars, matchupVars, trainVars, gamedayVars>>
    \/ TrainStaleModels /\ UNCHANGED <<injuryVars, featureVars, dstVars, scoringVars, readyVars, lineupVars, greedyVars, matchupVars, trainVars, gamedayVars>>
    \/ \E t \in ThreadIds, sc \in ScoringSystems :
        \/ \E seasons \in TrainSeasonInputs :
              TrainModelsRequest(t, sc, seasons) /\ UNCHANGED <<injuryVars, featureVars, dstVars, scoringVars, readyVars, lineupVars, greedyVars, matchupVars, trainVars, gamedayVars>>
        \/ \E key \in RequestKeys :
              GetPredictions(t, sc, key) /\ UNCHANGED <<injuryVars, featureVars, dstVars, scoringVars, readyVars, lineupVars, greedyVars, matchupVars, trainVars, gamedayVars>>
        \/ \E key \in RequestKeys :
              OptimizedProgress(t, sc, key) /\ UNCHANGED <<injuryVars, featureVars, dstVars, scoringVars, readyVars, lineupVars, greedyVars, matchupVars, trainVars, gamedayVars>>
    \/ \E t \in ThreadIds :
        \/ TrainModels(t) /\ UNCHANGED <<injuryVars, featureVars, dstVars, scoringVars, readyVars, lineupVars, greedyVars, matchupVars, trainVars, gamedayVars>>
        \/ SaveOpen(t) /\ UNCHANGED <<injuryVars, featureVars, dstVars, scoringVars, readyVars, lineupVars, greedyVars, matchupVars, trainVars, gamedayVars>>
        \/ SaveDump(t) /\ UNCHANGED <<injuryVars, featureVars, dstVars, scoringVars, readyVars, lineupVars, greedyVars, matchupVars, trainVars, gamedayVars>>
        \/ SaveFail(t) /\ UNCHANGED <<injuryVars, featureVars, dstVars, scoringVars, readyVars, lineupVars, greedyVars, matchupVars, trainVars, gamedayVars>>
        \/ WriteCurrent(t) /\ UNCHANGED <<injuryVars, featureVars, dstVars, scoringVars, readyVars, lineupVars, greedyVars, matchupVars, trainVars, gamedayVars>>
        \/ TrainCutoff(t) /\ UNCHANGED <<injuryVars, featureVars, dstVars, scoringVars, readyVars, lineupVars, greedyVars, matchupVars, trainVars, gamedayVars>>
        \/ LoadCutoffModel(t) /\ UNCHANGED <<injuryVars, featureVars, dstVars, scoringVars, readyVars, lineupVars, greedyVars, matchupVars, trainVars, gamedayVars>>
        \/ GenerateBasePredictions(t) /\ UNCHANGED <<injuryVars, featureVars, dstVars, scoringVars, readyVars, lineupVars, greedyVars, matchupVars, trainVars, gamedayVars>>
        \/ PredictPlayers(t) /\ UNCHANGED <<injuryVars, featureVars, dstVars, scoringVars, readyVars, lineupVars, greedyVars, matchupVars, trainVars, gamedayVars>>
        \/ PredictDst(t) /\ UNCHANGED <<injuryVars, featureVars, dstVars, scoringVars, readyVars, lineupVars, greedyVars, matchupVars, trainVars, gamedayVars>>

Spec == Init /\ [][Next]_vars

\* One matchup: any injury list, and a base prediction or none.
InitDst ==
    /\ currentInjuries \in SeqsUpTo(RosterInjury, MaxRoster)
    /\ dstBase \in { <<>> } \cup { <<b>> : b \in DstBasePoints }
    /\ dstPredictions = <<>>
    /\ dstCalled = FALSE
    /\ InjuryAtRest
    /\ FeaturesAtRest
    /\ StoreAtRest
    /\ ScoringAtRest
    /\ ReadyAtRest
    /\ LineupAtRest
    /\ GreedyAtRest
    /\ MatchupAtRest
    /\ TrainAtRest
    /\ GamedayAtRest

NextDst ==
    \/ GetDstPredictionsWithInjuries /\ UNCHANGED <<injuryVars, featureVars, storeVars, scoringVars, readyVars, lineupVars, greedyVars, matchupVars, trainVars, gamedayVars>>

SpecDst == InitDst /\ [][NextDst]_vars

\* One scoring call on any row around the scenario rows, under a shipped
\* name or an unknown one.
InitScoring ==
    /\ scoreArgs \in
          { [op |-> "player", row |-> r, scoring_system |-> n, layout |-> "new"] :
                r \in PlayerRows, n \in ScoringNames }
          \cup
          { [op |-> "dst", row |-> r, scoring_system |-> n, layout |-> l] :
                r \in DstRows, n \in {"FanDuel", "Yahoo"}, l \in DstLayouts }
    /\ scoreResult = <<>>
    /\ InjuryAtRest
    /\ FeaturesAtRest
    /\ StoreAtRest
    /\ DstAtRest
    /\ ReadyAtRest
    /\ LineupAtRest
    /\ GreedyAtRest
    /\ MatchupAtRest
    /\ TrainAtRest
    /\ GamedayAtRest

NextScoring ==
    \/ CalculatePlayerPoints /\ UNCHANGED <<injuryVars, featureVars, storeVars, dstVars, readyVars, lineupVars, greedyVars, matchupVars, trainVars, gamedayVars>>
    \/ CalculateDstPoints /\ UNCHANGED <<injuryVars, featureVars, storeVars, dstVars, readyVars, lineupVars, greedyVars, matchupVars, trainVars, gamedayVars>>

SpecScoring == InitScoring /\ [][NextScoring]_vars

\* Week readiness: one week under ingestion, checked by _week_ready.
InitReady ==
    /\ \E stage \in [1..MaxGames -> Stages], dst \in 0..(2 * MaxGames + 1) :
          /\ games = UNION { StageGames(stage[p], FocusWeek[1], FocusWeek[2], p) : p \in 1..MaxGames }
          /\ game_stats_rows = UNION { StageStats(stage[p], FocusWeek[1], FocusWeek[2], p) : p \in 1..MaxGames }
          /\ team_defense_stats = (FocusWeek :> dst)
    /\ dbUp \in BOOLEAN
    /\ readyArgs = [op |-> "none"]
    /\ readyResult = <<>>
    /\ InjuryAtRest
    /\ FeaturesAtRest
    /\ StoreAtRest
    /\ DstAtRest
    /\ ScoringAtRest
    /\ LineupAtRest
    /\ GreedyAtRest
    /\ MatchupAtRest
    /\ TrainAtRest
    /\ GamedayAtRest

NextReady ==
    \/ WeekReady /\ UNCHANGED <<injuryVars, featureVars, storeVars, dstVars, scoringVars, lineupVars, greedyVars, matchupVars, trainVars, gamedayVars>>
    \/ NormalizeGameIds /\ UNCHANGED <<injuryVars, featureVars, storeVars, dstVars, scoringVars, lineupVars, greedyVars, matchupVars, trainVars, gamedayVars>>

SpecReady == InitReady /\ [][NextReady]_vars

\* The cutoff scan: a few populated weeks across seasons, scanned by
\* _latest_ready_before.
InitLatest ==
    /\ \E populated \in SubsetsUpTo(PopulatedWeeks, MaxPopulatedWeeks) :
          \E shape \in [populated -> WeekShapes] :
              /\ games = UNION { StageGames(shape[k].stage, k[1], k[2], 1) : k \in populated }
              /\ game_stats_rows = UNION { StageStats(shape[k].stage, k[1], k[2], 1) : k \in populated }
              /\ team_defense_stats = [k \in populated |-> shape[k].dst]
    /\ dbUp \in BOOLEAN
    /\ readyArgs = [op |-> "none"]
    /\ readyResult = <<>>
    /\ InjuryAtRest
    /\ FeaturesAtRest
    /\ StoreAtRest
    /\ DstAtRest
    /\ ScoringAtRest
    /\ LineupAtRest
    /\ GreedyAtRest
    /\ MatchupAtRest
    /\ TrainAtRest
    /\ GamedayAtRest

NextLatest ==
    \/ LatestReadyBefore /\ UNCHANGED <<injuryVars, featureVars, storeVars, dstVars, scoringVars, lineupVars, greedyVars, matchupVars, trainVars, gamedayVars>>

SpecLatest == InitLatest /\ [][NextLatest]_vars

\* The basic lineup composer over prediction lists.
InitLineup ==
    /\ \E n \in 0..MaxLineupPredictions :
          \E position \in [1..n -> PredictionPositions], points \in [1..n -> LineupPoints] :
              lineupPredictions =
                  [i \in 1..n |-> [player_id |-> i, position |-> position[i],
                                   predicted_points |-> points[i]]]
    /\ lineupResult = <<>>
    /\ InjuryAtRest
    /\ FeaturesAtRest
    /\ StoreAtRest
    /\ DstAtRest
    /\ ScoringAtRest
    /\ ReadyAtRest
    /\ GreedyAtRest
    /\ MatchupAtRest
    /\ TrainAtRest
    /\ GamedayAtRest

NextLineup ==
    \/ GenerateOptimalLineups /\ UNCHANGED <<injuryVars, featureVars, storeVars, dstVars, scoringVars, readyVars, greedyVars, matchupVars, trainVars, gamedayVars>>

SpecLineup == InitLineup /\ [][NextLineup]_vars

\* the sub-lists of a list, order kept
RECURSIVE SubLists(_)
SubLists(list) ==
    IF list = <<>> THEN {<<>>}
    ELSE LET rest == SubLists(Tail(list))
         IN  rest \cup { <<Head(list)>> \o r : r \in rest }

\* The salary-aware composer over projections drawn from the roster.
InitGreedy ==
    /\ projections \in
          SubLists(SubSeq(Roster, 1, Min(MaxProjections, Len(Roster))))
              \cup SubLists(SubSeq(BudgetRoster, 1, Min(MaxProjections, Len(BudgetRoster))))
    /\ constraintsArg \in { <<>>, <<TightConstraints>> }
    /\ greedyPc = "idle"
    /\ greedyIndex = 1
    /\ selected_players = <<>>
    /\ remaining_salary = 0
    /\ position_needs = <<>>
    /\ greedyResult = <<>>
    /\ InjuryAtRest
    /\ FeaturesAtRest
    /\ StoreAtRest
    /\ DstAtRest
    /\ ScoringAtRest
    /\ ReadyAtRest
    /\ LineupAtRest
    /\ MatchupAtRest
    /\ TrainAtRest
    /\ GamedayAtRest

NextGreedy ==
    \/ OptimizeLineupGreedy /\ UNCHANGED <<injuryVars, featureVars, storeVars, dstVars, scoringVars, readyVars, lineupVars, matchupVars, trainVars, gamedayVars>>
    \/ GreedyStep /\ UNCHANGED <<injuryVars, featureVars, storeVars, dstVars, scoringVars, readyVars, lineupVars, matchupVars, trainVars, gamedayVars>>
    \/ GreedyReturn /\ UNCHANGED <<injuryVars, featureVars, storeVars, dstVars, scoringVars, readyVars, lineupVars, matchupVars, trainVars, gamedayVars>>

SpecGreedy == InitGreedy /\ [][NextGreedy]_vars

\* Matchup analysis over windows of recent games.
InitMatchup ==
    /\ offenseGames \in SeqsUpTo(OffenseGames, MaxWindowGames)
    /\ defenseGames \in SeqsUpTo(DefenseGames, MaxWindowGames)
    /\ matchupResult = <<>>
    /\ InjuryAtRest
    /\ FeaturesAtRest
    /\ StoreAtRest
    /\ DstAtRest
    /\ ScoringAtRest
    /\ ReadyAtRest
    /\ LineupAtRest
    /\ GreedyAtRest
    /\ TrainAtRest
    /\ GamedayAtRest

NextMatchup ==
    \/ AnalyzeMatchup /\ UNCHANGED <<injuryVars, featureVars, storeVars, dstVars, scoringVars, readyVars, lineupVars, greedyVars, trainVars, gamedayVars>>

SpecMatchup == InitMatchup /\ [][NextMatchup]_vars

\* A predictor as constructed: train, load and predict in any order.
InitTrain ==
    /\ models = [pos \in ModelPositions |-> 0]
    /\ trainings = 0
    /\ lastTrain = NoTrain
    /\ positionPrediction = NoPositionPrediction
    /\ InjuryAtRest
    /\ FeaturesAtRest
    /\ StoreAtRest
    /\ DstAtRest
    /\ ScoringAtRest
    /\ ReadyAtRest
    /\ LineupAtRest
    /\ GreedyAtRest
    /\ MatchupAtRest
    /\ GamedayAtRest

NextTrain ==
    \/ \E examples \in [ModelPositions -> ExampleCounts] :
           TrainPositionModels(examples)
           /\ UNCHANGED <<injuryVars, featureVars, storeVars, dstVars, scoringVars, readyVars, lineupVars, greedyVars, matchupVars, gamedayVars>>
    \/ \E keys \in { {}, ModelPositions } :
           LoadPositionModels(keys)
           /\ UNCHANGED <<injuryVars, featureVars, storeVars, dstVars, scoringVars, readyVars, lineupVars, greedyVars, matchupVars, gamedayVars>>
    \/ \E position \in ModelPositions :
           PredictPosition(position)
           /\ UNCHANGED <<injuryVars, featureVars, storeVars, dstVars, scoringVars, readyVars, lineupVars, greedyVars, matchupVars, gamedayVars>>

SpecTrain == InitTrain /\ [][NextTrain]_vars

\* One get_gameday_predictions call over any injury feed and any base
\* predictions, the feed changing while the call runs.
InitGameday ==
    /\ injuryFeed \in SeqsUpTo(FeedInjuries, MaxInjuries)
    /\ feedChanges = 0
    /\ gamedayPc = "report"
    /\ injury_report = NoReport
    /\ player_predictions \in SeqsUpTo(GamedayPrediction, MaxPredictions)
    /\ optimal_lineups = <<>>
    /\ InjuryAtRest
    /\ FeaturesAtRest
    /\ StoreAtRest
    /\ DstAtRest
    /\ ScoringAtRest
    /\ ReadyAtRest
    /\ LineupAtRest
    /\ GreedyAtRest
    /\ MatchupAtRest
    /\ TrainAtRest

NextGameday ==
    \/ \E injuries \in SeqsUpTo(FeedInjuries, MaxInjuries) :
           FeedChanges(injuries) /\ UNCHANGED <<injuryVars, featureVars, storeVars, dstVars, scoringVars, readyVars, lineupVars, greedyVars, matchupVars, trainVars>>
    \/ ReportOutPlayers /\ UNCHANGED <<injuryVars, featureVars, storeVars, dstVars, scoringVars, readyVars, lineupVars, greedyVars, matchupVars, trainVars>>
    \/ ReportQuestionable /\ UNCHANGED <<injuryVars, featureVars, storeVars, dstVars, scoringVars, readyVars, lineupVars, greedyVars, matchupVars, trainVars>>
    \/ GamedayFilterOut /\ UNCHANGED <<injuryVars, featureVars, storeVars, dstVars, scoringVars, readyVars, lineupVars, greedyVars, matchupVars, trainVars>>
    \/ GamedayAdjust /\ UNCHANGED <<injuryVars, featureVars, storeVars, dstVars, scoringVars, readyVars, lineupVars, greedyVars, matchupVars, trainVars>>
    \/ GamedayLineups /\ UNCHANGED <<injuryVars, featureVars, storeVars, dstVars, scoringVars, readyVars, lineupVars, greedyVars, matchupVars, trainVars>>

SpecGameday == InitGameday /\ [][NextGameday]_vars

(***************************************************************************)
(* Claims about the model store.                                           *)
(***************************************************************************)

\* C1: the models a prediction request for (R, S, W) computes with were
\* trained on no row of week (S, W) or later.
C1_CutoffSafety ==
    \A t \in ThreadIds :
        (threads[t].kind = "predict" /\ threads[t].pc = "dst")
            => \A row \in threads[t].used.trained_on :
                    KeyBefore(row, threads[t].key)

\* C2: a prediction request that found no file at its cutoff path leaves a
\* complete file there when it finishes.
C2_CutoffArtifactLifecycle ==
    [][ \A t \in ThreadIds :
            (booted' /\ threads[t].pc = "train_cutoff"
                     /\ threads'[t].pc # "train_cutoff")
                => /\ files'[threads[t].path].exists
                   /\ files'[threads[t].path].complete ]_vars

\* C3: of two overlapping prediction requests for one (ruleset, season, week)
\* without a cutoff artifact, at most one is in the training branch; the
\* other waits.
C3_SingleFlightCutoff ==
    \A t1, t2 \in ThreadIds :
        (/\ t1 # t2
         /\ threads[t1].pc = "train_cutoff"
         /\ threads[t2].pc = "train_cutoff"
         /\ threads[t1].scoring = threads[t2].scoring)
            => threads[t1].key # threads[t2].key

\* C4: at most one training run is in flight per ruleset.
C4_PerRulesetTrainingLock ==
    \A t1, t2 \in ThreadIds :
        (t1 # t2 /\ threads[t1].pc = "train" /\ threads[t2].pc = "train")
            => threads[t1].scoring # threads[t2].scoring

\* C5: a blob visible at a final path <slug>_<season>_wk<week>.pkl is
\* complete.
C5_AtomicArtifactWrites ==
    \A p \in VersionedPaths : files[p].exists => files[p].complete

\* C6: models fitted with a feature schema other than the builder's are
\* never resident and never used for a prediction.
C6_SchemaCheckOnLoad ==
    /\ resident.schema = BuilderSchema
    /\ \A t \in ThreadIds : threads[t].used.schema = BuilderSchema

(***************************************************************************)
(* Claims about the feature cache.                                         *)
(***************************************************************************)

\* The rows the last call's feature vector was computed from.
RowsUsed(features) ==
    RowSet(features.recent_3) \cup RowSet(features.recent_5)
        \cup RowSet(features.current_season_games)

\* C7: leak-free features. After any sequence of prefetch and predict calls
\* (a prefetch for another target week included), every historical row the
\* player's feature vector is computed from belongs to a game strictly
\* before the target (season, week).
C7_LeakFreeFeatures ==
    \A r \in RowsUsed(lastCall.outcome.features) :
        \/ r[1] < lastCall.season
        \/ r[1] = lastCall.season /\ r[2] < lastCall.week

(***************************************************************************)
(* Claims about the injury filter.                                         *)
(***************************************************************************)

\* Indices of the records whose name matches the prediction's name
\* case-insensitively.
MatchingInjuries(prediction, all_injuries) ==
    { i \in DOMAIN all_injuries :
        Lower(all_injuries[i].player_name) = Lower(prediction.player_name) }

\* C8: injury monotonicity. For every prediction p and every injury list,
\* adjust returns predicted_points <= p.predicted_points, with equality if
\* and only if no injury matching p's name has impact severity > 0.
C8_InjuryMonotonicity ==
    lastOp = "adjust" =>
        \A i \in DOMAIN opInput :
            LET p == opInput[i]
                q == playerPredictions[i]
                severe == \E j \in MatchingInjuries(p, injurySource) :
                              impact_severity(injurySource[j]) > 0
            IN /\ q.predicted_points <= p.predicted_points
               /\ (q.predicted_points = p.predicted_points) <=> ~severe

\* C9: filter_out removes exactly the predictions whose name matches,
\* case-insensitively, the name of some injury record that is Out (status
\* Out or fantasy_status INACTIVE); the rest is returned unchanged and in
\* its original relative order.
C9_FilterOutExact ==
    lastOp = "filter_out" =>
        LET Kept(p) ==
                ~ \E j \in MatchingInjuries(p, injurySource) :
                    \/ injurySource[j].status = "Out"
                    \/ injurySource[j].fantasy_status = "INACTIVE"
        IN playerPredictions = SelectSeq(opInput, Kept)

\* C9 witness: a prediction was removed through a name that differs in case
\* from the Out record's name, and another prediction was kept.
C9_Witness ==
    /\ lastOp = "filter_out"
    /\ Len(playerPredictions) >= 1
    /\ \E i \in DOMAIN opInput, j \in DOMAIN injurySource :
        /\ injurySource[j].status = "Out"
        /\ injurySource[j].player_name # opInput[i].player_name
        /\ Lower(injurySource[j].player_name) = Lower(opInput[i].player_name)
        /\ \A k \in DOMAIN playerPredictions :
               Lower(playerPredictions[k].player_name) # Lower(opInput[i].player_name)

\* C10: adjust computes, for each prediction with a matching injury of
\* severity s > 0, predicted_points*(1-s) and attaches injury_adjustment = s
\* (1.0 Out or INACTIVE, 0.8 Doubtful, 0.3 Questionable, 0.0 otherwise);
\* predictions with no such injury come back with unchanged points and no
\* injury_adjustment.
C10_AdjustValues ==
    lastOp = "adjust" =>
        \A i \in DOMAIN opInput :
            LET p == opInput[i]
                q == playerPredictions[i]
                sev(inj) ==
                    IF inj.status = "Out" \/ inj.fantasy_status = "INACTIVE" THEN 10
                    ELSE IF inj.status = "Doubtful" THEN 8
                    ELSE IF inj.status = "Questionable" THEN 3
                    ELSE 0
                positive == { sev(injurySource[j]) :
                                j \in MatchingInjuries(p, injurySource) } \ {0}
            IN IF positive # {}
               THEN \E s \in positive :
                        /\ q.predicted_points * 10 = p.predicted_points * (10 - s)
                        /\ q.injury_adjustment = {s}
                        /\ q.player_name = p.player_name
               ELSE q = p

(***************************************************************************)
(* Claims about DST projections.                                           *)
(***************************************************************************)

\* the opponent's records of one position satisfying a test
CountAt(position, Test(_)) ==
    Len(SelectSeq(currentInjuries,
                  LAMBDA i : /\ Lower(i.team) = Lower(OpponentTeam)
                             /\ i.position = position
                             /\ Test(i)))

OutLinemen ==
    CountAt("C", is_out) + CountAt("G", is_out) + CountAt("T", is_out)

\* C11 as stated: the uplift is min(0.25, 0.15 per Out QB + 0.05 per QB
\* whose status is Questionable + 0.03 per Out C, G or T), and the emitted
\* projection is base * (1 + uplift).
C11_DstBoostQuestionableOnly ==
    (dstCalled /\ dstBase # <<>>) =>
        /\ Len(dstPredictions) = 1
        /\ dstPredictions[1].injury_boost =
              Min(25, 15 * CountAt("QB", is_out)
                      + 5 * CountAt("QB", LAMBDA i : ~is_out(i) /\ i.status = "Questionable")
                      + 3 * OutLinemen)
        /\ dstPredictions[1].adjusted_prediction =
              dstBase[1] * (100 + dstPredictions[1].injury_boost)

\* C11 amended: the 0.05 term counts every QB who is not out and whose
\* status is Questionable or Doubtful.
C11_DstBoost ==
    (dstCalled /\ dstBase # <<>>) =>
        /\ Len(dstPredictions) = 1
        /\ dstPredictions[1].injury_boost =
              Min(25, 15 * CountAt("QB", is_out)
                      + 5 * CountAt("QB", LAMBDA i : ~is_out(i) /\ is_questionable(i))
                      + 3 * OutLinemen)
        /\ dstPredictions[1].adjusted_prediction =
              dstBase[1] * (100 + dstPredictions[1].injury_boost)

\* an Out QB with four Out linemen: 0.27 capped to 0.25
C11_Witness ==
    /\ dstCalled
    /\ dstBase # <<>>
    /\ CountAt("QB", is_out) = 1
    /\ OutLinemen = 4
    /\ dstPredictions[1].injury_boost = 25
    /\ dstPredictions[1].adjusted_prediction = dstBase[1] * 125

(***************************************************************************)
(* Claims about scoring.                                                   *)
(***************************************************************************)

\* a player call that has returned
PlayerScored == scoreArgs.op = "player" /\ scoreResult # <<>>

\* a DST call that has returned
DstScored == scoreArgs.op = "dst" /\ scoreResult # <<>>

\* C12 as stated: scenario S1 under FanDuel yields passing 19.48, bonus 3
\* and total 22.48.
C12_ScenarioS1AsStated ==
    (PlayerScored /\ scoreArgs.row = S1Row /\ scoreArgs.scoring_system = "FanDuel")
        => /\ scoreResult[1].passing_points = FNum(1948)
           /\ scoreResult[1].bonus_points = FNum(300)
           /\ scoreResult[1].total_points = FNum(2248)

\* C12 amended: scenario S1 under FanDuel yields passing 20.48 (the
\* interception is a penalty of -1), rushing 1.8, bonus 3 and total 24.28.
C12_ScenarioS1 ==
    (PlayerScored /\ scoreArgs.row = S1Row /\ scoreArgs.scoring_system = "FanDuel")
        => /\ ~scoreResult[1].raised
           /\ scoreResult[1].passing_points = FNum(2048)
           /\ scoreResult[1].rushing_points = FNum(180)
           /\ scoreResult[1].receiving_points = FNum(0)
           /\ scoreResult[1].penalty_points = FNum(-100)
           /\ scoreResult[1].bonus_points = FNum(300)
           /\ scoreResult[1].total_points = FNum(2428)

C12_Witness ==
    /\ PlayerScored
    /\ scoreArgs.row = S1Row
    /\ scoreArgs.scoring_system = "FanDuel"
    /\ scoreResult[1].total_points = FNum(2428)

\* C13 as stated: scenario S2 under DraftKings yields receiving 22.4,
\* rushing 1.2, bonus 3 and total 26.6.
C13_ScenarioS2AsStated ==
    (PlayerScored /\ scoreArgs.row = S2Row /\ scoreArgs.scoring_system = "DraftKings")
        => /\ scoreResult[1].receiving_points = FNum(2240)
           /\ scoreResult[1].rushing_points = FNum(120)
           /\ scoreResult[1].bonus_points = FNum(300)
           /\ scoreResult[1].total_points = FNum(2660)

\* C13 amended: scenario S2 under DraftKings yields receiving 24.4,
\* rushing 1.2, bonus 3 and total 28.6.
C13_ScenarioS2 ==
    (PlayerScored /\ scoreArgs.row = S2Row /\ scoreArgs.scoring_system = "DraftKings")
        => /\ ~scoreResult[1].raised
           /\ scoreResult[1].receiving_points = FNum(2440)
           /\ scoreResult[1].rushing_points = FNum(120)
           /\ scoreResult[1].passing_points = FNum(0)
           /\ scoreResult[1].penalty_points = FNum(0)
           /\ scoreResult[1].bonus_points = FNum(300)
           /\ scoreResult[1].total_points = FNum(2860)

C13_Witness ==
    /\ PlayerScored
    /\ scoreArgs.row = S2Row
    /\ scoreArgs.scoring_system = "DraftKings"
    /\ scoreResult[1].total_points = FNum(2860)

\* the tier of a points-allowed value: <<key, legacy key, default>>
TierOf(n) ==
    CASE n = 0 -> <<"dst_shutout_points", "dst_points_allowed_0_points", 1000>>
      [] n \in 1..6 -> <<"dst_1to6_points", "dst_points_allowed_1_6_points", 700>>
      [] n \in 7..13 -> <<"dst_7to13_points", "dst_points_allowed_7_13_points", 400>>
      [] n \in 14..20 -> <<"dst_14to20_points", "dst_points_allowed_14_20_points", 100>>
      [] n \in 21..27 -> <<"dst_21to27_points", "dst_points_allowed_21_27_points", 0>>
      [] n \in 28..34 -> <<"dst_28to34_points", "dst_points_allowed_28_34_points", -100>>
      [] n >= 35 -> <<"dst_35plus_points", "dst_points_allowed_35_points", -400>>

\* the value a system dict gives a tier: under the new key when it has it,
\* under the legacy key otherwise, else the built-in default
TierValue(system, tier) ==
    IF tier[1] \in DOMAIN system THEN system[tier[1]]
    ELSE IF tier[2] \in DOMAIN system THEN system[tier[2]]
    ELSE tier[3]

\* C14: for every points_allowed value the tier value awarded is the one of
\* its range, boundaries in the lower tier, read from the new key when
\* present and from the legacy key otherwise; scenario S3 totals 19.
C14_DstTiers ==
    (DstScored /\ ~scoreResult[1].raised) =>
        /\ ("points_allowed" \in DOMAIN scoreArgs.row
                /\ scoreArgs.row["points_allowed"].kind = "num")
            => scoreResult[1].points_allowed_score =
                  FNum(TierValue(DstSystem(scoreArgs.layout),
                                 TierOf(scoreArgs.row["points_allowed"].v)))
        /\ (scoreArgs.row = S3Row /\ scoreArgs.layout = "new")
            => scoreResult[1].total_points = FNum(1900)

\* a boundary value scored from a table that has only the legacy keys
C14_Witness ==
    /\ DstScored
    /\ ~scoreResult[1].raised
    /\ scoreArgs.layout = "legacy"
    /\ "points_allowed" \in DOMAIN scoreArgs.row
    /\ scoreArgs.row["points_allowed"] = CellNum(13)
    /\ scoreResult[1].points_allowed_score = FNum(LegacyValue(400))

\* the number a cell holds, for the cells that hold one
IsNumber(row, f) == f \in DOMAIN row /\ row[f].kind \in {"num", "bytes"}

\* values a stat is raised to
RaisedValues == { 1, 3, 99, 100, 101, 299, 300, 301, 400 }

TurnoverFields == { "pass_interceptions", "rush_fumbles", "receiving_fumbles" }

GainFields ==
    { "pass_yards", "rush_yards", "receiving_yards", "pass_touchdowns",
      "rush_touchdowns", "receiving_touchdowns" }

\* total_points of the row with one stat raised to v
TotalWith(f, v) ==
    calculate_player_points([scoreArgs.row EXCEPT ![f] = CellNum(v)],
                            scoreArgs.scoring_system).total_points

FGt(a, b) == ~a.nan /\ ~b.nan /\ a.v > b.v

\* C15: under every shipped ruleset, raising a turnover stat never raises
\* the total and raising a yards or touchdown stat never lowers it.
C15_ScoringMonotonicity ==
    (PlayerScored /\ ~scoreResult[1].raised) =>
        \A v \in RaisedValues :
            /\ \A f \in TurnoverFields :
                  (IsNumber(scoreArgs.row, f) /\ v > scoreArgs.row[f].v)
                      => ~FGt(TotalWith(f, v), scoreResult[1].total_points)
            /\ \A f \in GainFields :
                  (IsNumber(scoreArgs.row, f) /\ v > scoreArgs.row[f].v)
                      => ~FGt(scoreResult[1].total_points, TotalWith(f, v))

\* 99 rushing yards under FanDuel: one yard more crosses the bonus threshold
C15_Witness ==
    /\ PlayerScored
    /\ scoreArgs.scoring_system = "FanDuel"
    /\ IsNumber(scoreArgs.row, "rush_yards")
    /\ scoreArgs.row["rush_yards"].v = 99
    /\ ~scoreResult[1].total_points.nan
    /\ TotalWith("rush_yards", 100) = FNum(scoreResult[1].total_points.v + 310)

\* the row with every null, missing and non-numeric cell replaced by 0
Zeroed(row, fields) ==
    [ f \in fields |->
        IF f \in DOMAIN row /\ row[f].kind \in {"num", "bytes"}
        THEN row[f] ELSE CellNum(0) ]

\* C16: a scoring call raises exactly for an unknown ruleset, and under a
\* known one every null, missing or non-numeric cell counts as 0 would.
C16_ScoringInputTolerance ==
    /\ PlayerScored =>
        /\ scoreResult[1].raised <=> scoreArgs.scoring_system \notin DOMAIN scoring_systems
        /\ scoreResult[1] =
              calculate_player_points(Zeroed(scoreArgs.row, PlayerFields),
                                      scoreArgs.scoring_system)
    /\ DstScored =>
        /\ scoreResult[1].raised <=> scoreArgs.scoring_system \notin DOMAIN scoring_systems
        /\ scoreResult[1] =
              calculate_dst_points(Zeroed(scoreArgs.row, DstFields),
                                   scoreArgs.scoring_system,
                                   DstSystem(scoreArgs.layout))

(***************************************************************************)
(* Claims about week readiness.                                            *)
(***************************************************************************)

WeekReadyReturned == readyArgs.op = "week_ready" /\ readyResult # <<>>

LatestReturned == readyArgs.op = "latest_ready_before" /\ readyResult # <<>>

\* the games of a week
GamesOfWeek(season, week) ==
    { g \in games : g.game_id.season = season /\ g.game_id.week = week }

\* the game ids of the box-score rows of a week
BoxScoreIdsOfWeek(season, week) ==
    { id \in game_stats_rows : id.season = season /\ id.week = week }

\* C17: week_ready is true if and only if every game of the week has both
\* scores, the team-defense table has exactly two rows per game of the week
\* and no box-score row of the week carries a synthetic game id; 14 games,
\* 14 scored, 28 defense rows and 0 synthetic ids give true, 13 scored or
\* 27 defense rows give false.
C17_WeekReadiness ==
    /\ WeekReadyReturned =>
        LET season == readyArgs.season
            week == readyArgs.week
        IN  readyResult[1].ready <=>
                /\ \A g \in GamesOfWeek(season, week) : g.scored
                /\ DstRowsOf(season, week) = 2 * Cardinality(GamesOfWeek(season, week))
                /\ \A id \in BoxScoreIdsOfWeek(season, week) : id.kind # "synthetic"
    /\ ReadyVerdict(14, 14, 28, 0)
    /\ ~ReadyVerdict(14, 13, 28, 0)
    /\ ~ReadyVerdict(14, 14, 27, 0)

\* the weeks _latest_ready_before looks at: the earlier weeks of the season
\* and weeks 1..18 of the four seasons before it, none before 2000
ScanWindow(season, week) ==
    { <<season, w>> : w \in 1..(week - 1) }
        \cup { <<s, w>> : s \in { x \in (season - PriorSeasons)..(season - 1) : x >= FirstSeason },
                          w \in 1..WeeksScanned }

ReadyWeeks(window) == { k \in window : _week_ready(k[1], k[2]).ready }

\* C18: latest_ready_before returns the first ready week of the scan (the
\* latest ready week of the window); a result is ready and strictly
\* precedes (season, week); none is returned exactly when the window holds
\* no ready week.
C18_LatestReadyBefore ==
    LatestReturned =>
        LET result == readyResult[1]
            ready == ReadyWeeks(ScanWindow(readyArgs.season, readyArgs.week))
        IN  /\ result = NoWeek <=> ready = {}
            /\ result # NoWeek =>
                /\ result \in ready
                /\ KeyBefore(result, <<readyArgs.season, readyArgs.week>>)
                /\ \A k \in ready : k = result \/ KeyBefore(k, result)

\* the season at hand has no ready earlier week, the season before has one
\* in week 18, and an older ready week is passed over
C18_Witness ==
    /\ LatestReturned
    /\ readyArgs.season = 2005
    /\ readyArgs.week = 3
    /\ readyResult[1] = <<2004, WeeksScanned>>
    /\ Cardinality(ReadyWeeks(ScanWindow(2005, 3))) = 2

(***************************************************************************)
(* Claims about the basic lineup composer.                                 *)
(***************************************************************************)

LineupReturned == lineupResult # <<>>

\* the players the lineup holds for a position
Chosen(position) ==
    LET players == lineupResult[1].optimal.players
    IN  IF position \in DOMAIN players THEN players[position] ELSE <<>>

\* the predictions of a position
Candidates(position) ==
    { lineupPredictions[i] : i \in { j \in 1..Len(lineupPredictions) :
                                        lineupPredictions[j].position = position } }

SeqRange(list) == { list[i] : i \in 1..Len(list) }

\* at most 1 QB, 2 RB, 3 WR and 1 TE, each position's players being its
\* top-k by predicted_points descending, a short position under-filled
LineupSlotsTopK ==
    \A i \in 1..Len(LineupPositions) :
        LET position == LineupPositions[i]
            chosen == Chosen(position)
            k == IF position = "RB" THEN 2 ELSE IF position = "WR" THEN 3 ELSE 1
        IN  /\ Len(chosen) <= k
            /\ Len(chosen) = Min(k, Cardinality(Candidates(position)))
            /\ Cardinality(SeqRange(chosen)) = Len(chosen)
            /\ SeqRange(chosen) \subseteq Candidates(position)
            /\ \A a \in 1..Len(chosen), b \in 1..Len(chosen) :
                  a < b => chosen[a].predicted_points >= chosen[b].predicted_points
            /\ \A left \in Candidates(position) \ SeqRange(chosen), c \in SeqRange(chosen) :
                  left.predicted_points <= c.predicted_points

\* the positions with fewer predictions than slots
UnderFilled ==
    { LineupPositions[i] : i \in { j \in 1..Len(LineupPositions) :
        Cardinality(Candidates(LineupPositions[j])) < SlotCount(LineupPositions[j]) } }

\* the result says something beyond the players and their total
UnderFillReported ==
    \E field \in DOMAIN lineupResult[1].optimal : field \notin {"players", "total_projected"}

\* C19: the lineup holds at most 1 QB, 2 RB, 3 WR and 1 TE, each position's
\* top-k by predicted_points descending; a position with fewer predictions
\* than slots is left under-filled and the under-fill is reported in the
\* result.
C19_BasicLineup ==
    LineupReturned =>
        /\ LineupSlotsTopK
        /\ UnderFilled # {} => UnderFillReported

\* what of C19 the composer does keep: slot counts and top-k
C19_SlotsOnly == LineupReturned => LineupSlotsTopK

(***************************************************************************)
(* Claims about the salary-aware composer.                                 *)
(***************************************************************************)

\* salaries within the cap, no team above max_players_per_team
WithinBudgetAndTeamCap(players) ==
    /\ SumSalary(players) <= Constraints.salary_cap
    /\ \A team \in { players[i].team : i \in 1..Len(players) } :
          Cardinality({ i \in 1..Len(players) : players[i].team = team })
              <= Constraints.max_players_per_team

\* C20: after every step of the greedy selection, and in the returned
\* lineup, the selected salaries sum to at most the salary cap (default
\* 50,000) and no team has more than max_players_per_team (4) players.
C20_BudgetAndTeamCap ==
    /\ default_constraints.salary_cap = 50000
    /\ default_constraints.max_players_per_team = 4
    /\ greedyPc # "idle" => WithinBudgetAndTeamCap(selected_players)
    /\ greedyResult # <<>> =>
          /\ WithinBudgetAndTeamCap(greedyResult[1].players)
          /\ greedyResult[1].total_salary <= Constraints.salary_cap

\* under the default constraints: a fifth player of a team and a player
\* beyond the budget were passed over, and the lineup spends the cap exactly
C20_Witness ==
    /\ greedyResult # <<>>
    /\ constraintsArg = <<>>
    /\ greedyResult[1].total_salary = 50000
    /\ Cardinality({ i \in 1..Len(selected_players) : selected_players[i].team = "A" }) = 4
    /\ \E i \in 1..Len(projections) :
          /\ projections[i].team = "A"
          /\ projections[i] \notin { selected_players[j] : j \in 1..Len(selected_players) }
    /\ \E i \in 1..Len(projections) :
          /\ projections[i].team = "B"
          /\ projections[i].position = "WR"
          /\ projections[i] \notin { selected_players[j] : j \in 1..Len(selected_players) }

\* a lineup was returned and holds players
LineupReturnedNonEmpty == greedyResult # <<>> /\ greedyResult[1].players # <<>>

\* C21: every non-empty lineup the greedy composer returns uses at least
\* min_teams (2) distinct teams.
C21_TeamDiversity ==
    /\ default_constraints.min_teams = 2
    /\ LineupReturnedNonEmpty =>
          Cardinality(greedyResult[1].teams_used) >= Constraints.min_teams

\* number of players of a position in the returned lineup
CountOf(position) ==
    Cardinality({ i \in 1..Len(greedyResult[1].players) :
                    greedyResult[1].players[i].position = position })

Over(count, base) == IF count > base THEN count - base ELSE 0

\* C22: with the default template a returned lineup has one player per
\* slot: at most 9 players, at most 1 QB and 1 DST, at most 7 among RB, WR
\* and TE, of which only one (the FLEX) exceeds the base counts 2 RB, 3 WR,
\* 1 TE.
C22_SlotTemplate ==
    (greedyResult # <<>> /\ Constraints.positions = default_constraints.positions) =>
        /\ Len(greedyResult[1].players) <= 9
        /\ CountOf("QB") <= 1
        /\ CountOf("DST") <= 1
        /\ CountOf("RB") + CountOf("WR") + CountOf("TE") <= 7
        /\ Over(CountOf("RB"), 2) + Over(CountOf("WR"), 3) + Over(CountOf("TE"), 1) <= 1

(***************************************************************************)
(* Claims about history and the prefetch.                                  *)
(***************************************************************************)

\* the player's rows strictly before the target of the last call
PriorRows ==
    { r \in gameStats[lastCall.player] : StrictlyBefore(r, lastCall.season, lastCall.week) }

\* predict_player_points returned None, so _generate_base_predictions adds
\* no prediction for the player and no lineup can hold them
ReturnedNone == lastCall.outcome.features.none

\* C23: a player with fewer than 3 box-score rows strictly before
\* (season, week) gets no prediction, on the cached and on the uncached
\* path, and so appears in no prediction list or lineup.
C23_NotEnoughHistory ==
    (lastCall.player # "none" /\ Cardinality(PriorRows) < MinHistory) => ReturnedNone

\* what the same call computes its result from when the cache is empty
UncachedOutcome ==
    IF PositionOf(lastCall.player) \notin fittedPositions THEN NoFeatures
    ELSE extract_features(lastCall.player, lastCall.week, lastCall.season)

\* C24: after any sequence of prefetch calls, predict_player builds the
\* feature vector, and returns the value, it would with an empty cache.
C24_PrefetchTransparency ==
    lastCall.player # "none" => lastCall.outcome.features = UncachedOutcome

(***************************************************************************)
(* Claims about matchup analysis.                                          *)
(***************************************************************************)

\* low <= x <= high
RWithin(x, low, high) == ~RLess(x, low) /\ ~RLess(high, x)

\* C25: for every window of games, empty windows and games with negative
\* yardage included, the offensive and defensive composite scores lie in
\* [0, 100] and points_modifier, turnover_modifier and sack_modifier each
\* lie in [0.5, 1.5].
C25_BoundedMatchupSignals ==
    matchupResult # <<>> =>
        /\ RWithin(matchupResult[1].offense_strength.offensive_score, Rat(0, 1), Rat(100, 1))
        /\ RWithin(matchupResult[1].defense_strength.defensive_score, Rat(0, 1), Rat(100, 1))
        /\ RWithin(matchupResult[1].points_modifier, Rat(1, 2), Rat(3, 2))
        /\ RWithin(matchupResult[1].turnover_modifier, Rat(1, 2), Rat(3, 2))
        /\ RWithin(matchupResult[1].sack_modifier, Rat(1, 2), Rat(3, 2))

\* what of C25 holds: the defensive composite and the three modifiers
C25_DefenseAndModifiers ==
    matchupResult # <<>> =>
        /\ RWithin(matchupResult[1].defense_strength.defensive_score, Rat(0, 1), Rat(100, 1))
        /\ RWithin(matchupResult[1].points_modifier, Rat(1, 2), Rat(3, 2))
        /\ RWithin(matchupResult[1].turnover_modifier, Rat(1, 2), Rat(3, 2))
        /\ RWithin(matchupResult[1].sack_modifier, Rat(1, 2), Rat(3, 2))
        /\ ~RLess(Rat(100, 1), matchupResult[1].offense_strength.offensive_score)

(***************************************************************************)
(* Claims about the cutoff path, the model handle and the CURRENT pointer. *)
(***************************************************************************)

\* C26: cutoff path exclusivity. No sequence of trainings and publishes
\* leaves at cutoff_path(R, S, W) a model trained on a row of week (S, W)
\* or later, so a request that finds and loads the file never gets a model
\* that saw week (S, W).
C26_CutoffPathExclusivity ==
    \A sc \in ScoringSystems, k \in StoreKeys :
        LET file == files[_cutoff_model_path(sc, k[1], k[2])]
        IN  file.complete => \A row \in file.model.trained_on : KeyBefore(row, k)

\* C28: request isolation of the model handle. Under any interleaving of
\* prediction requests and background trainings, a prediction request
\* computes its predictions with the models it selected for its
\* (ruleset, season, week).
C28_RequestIsolation ==
    \A t \in ThreadIds :
        (threads[t].kind = "predict" /\ threads[t].pc = "dst")
            => threads[t].used = threads[t].blob

\* C29: CURRENT pointer integrity. In every reachable state, between the
\* steps of a publish and of two overlapping publishes included, the blob a
\* CURRENT.json names exists and is completely written.
C29_CurrentPointerIntegrity ==
    \A sc \in ScoringSystems :
        LET cur == currentJson[_safe_scoring(sc)]
        IN  cur.exists => files[cur.file].exists /\ files[cur.file].complete

(***************************************************************************)
(* Claims about the per-position models.                                   *)
(***************************************************************************)

\* C27: no stale position models. If the most recent train_models skipped
\* a position for having fewer than 50 examples, a prediction for that
\* position returns None and not a value from a model of an earlier train
\* or load.
C27_NoStalePositionModels ==
    (/\ lastTrain.called
     /\ positionPrediction.position \in lastTrain.skipped)
        => positionPrediction.model = 0

(***************************************************************************)
(* Claims about the gameday call.                                          *)
(***************************************************************************)

\* the names, lowercased, of the players the returned report lists as Out
ReportedOut == OutPlayerNames(injury_report.out_players)

\* the predictions of the returned optimal lineup
LineupPlayers ==
    UNION { { optimal_lineups[1].optimal.players[pos][i] :
                i \in DOMAIN optimal_lineups[1].optimal.players[pos] } :
            pos \in DOMAIN optimal_lineups[1].optimal.players }

\* C30: consistent injury snapshot. Even when the injury source changes
\* between the fetches of one get_gameday_predictions call, no player the
\* returned injury_report lists as Out is in the returned player_predictions
\* or in the optimal lineup.
C30_ConsistentInjurySnapshot ==
    gamedayPc = "done" =>
        /\ \A i \in DOMAIN player_predictions :
               Lower(player_predictions[i].player_name) \notin ReportedOut
        /\ \A pred \in LineupPlayers : Lower(pred.player_name) \notin ReportedOut

====
